---- MODULE Spec2Model ----
(***************************************************************************)
(* Maturity-assessment web application: response storage, completion       *)
(* gating, finalization and score aggregation.                             *)
(*                                                                         *)
(* One assessment row and its response rows are modelled together with     *)
(* the request handlers that read and write them:                          *)
(*   - the web routes of app/blueprints/assessment/routes.py               *)
(*     (submit_section_responses, submit_response, generate_report,        *)
(*     finalize, report),                                                  *)
(*   - the service layer app/services/assessment_service.py and            *)
(*     app/services/scoring_service.py,                                    *)
(*   - the REST resource app/api/responses.py,                             *)
(*   - the table constraints declared in app/models/*.py.                  *)
(*                                                                         *)
(* Spec     runs every handler as one atomic request (one request at a     *)
(*          time, as one worker serves them).                              *)
(* SpecConc runs two requests whose reads and commits interleave.          *)
(* SpecScoring calls the scoring service and the functions of              *)
(*          app/utils/scoring_utils.py on tables and arguments drawn from  *)
(*          bounded sets.                                                  *)
(* SpecRanking calls rank_recommendations of                               *)
(*          app/utils/recommendation_utils.py on bounded lists.            *)
(***************************************************************************)
EXTENDS Integers, Sequences, FiniteSets, TLC

VARIABLES
    status,                \* assessments.status
    overall_score,         \* assessments.overall_score        (Null or Some(rational))
    section_score_cols,    \* foundational/transformation/enterprise/governance_score by section id
    deviq_classification,  \* assessments.deviq_classification ("NULL" or a label)
    completion_date,       \* assessments.completion_date      (0 = NULL, else the commit's timestamp)
    responses,             \* responses table: question id -> rows (scores) stored for it
    finalize_commits,      \* number of committed finalization UPDATEs of the assessment row
    late_submits,          \* number of response commits made while status is COMPLETED
    req,                   \* requests in flight: slot -> position and locals
                           \* (SpecScoring, SpecRanking: the call made and its arguments)
    last                   \* the request that finished last: handler, inputs, outcome
                           \* (SpecScoring, SpecRanking: the call that returned, its result)

vars == <<status, overall_score, section_score_cols, deviq_classification,
          completion_date, responses, finalize_commits, late_submits, req, last>>

assessment_cols == <<status, overall_score, section_score_cols,
                     deviq_classification, completion_date>>

-----------------------------------------------------------------------------
(* Rational numbers: Python floats of the scores are modelled exactly.     *)

RECURSIVE GCD(_, _)
GCD(a, b) == IF b = 0 THEN a ELSE GCD(b, a % b)

Abs(x) == IF x < 0 THEN -x ELSE x

\* the fraction n/d (d # 0) in lowest terms with a positive denominator
Rat(n, d) ==
    LET g == GCD(Abs(n), Abs(d))
        m == IF d < 0 THEN 0 - n ELSE n
    IN  IF n = 0 THEN [n |-> 0, d |-> 1] ELSE [n |-> m \div g, d |-> Abs(d) \div g]

RatInt(k) == [n |-> k, d |-> 1]
RatAdd(x, y) == Rat(x.n * y.d + y.n * x.d, x.d * y.d)
RatMul(x, y) == Rat(x.n * y.n, x.d * y.d)
RatDivInt(x, k) == Rat(x.n, x.d * k)
RatLT(x, y) == x.n * y.d < y.n * x.d
RatLE(x, y) == x.n * y.d <= y.n * x.d
RatMax(x, y) == IF RatLT(x, y) THEN y ELSE x
RatMin(x, y) == IF RatLT(y, x) THEN y ELSE x

RECURSIVE RatSum(_)
RatSum(s) == IF s = <<>> THEN RatInt(0) ELSE RatAdd(Head(s), RatSum(Tail(s)))

RECURSIVE Pow10(_)
Pow10(k) == IF k = 0 THEN 1 ELSE 10 * Pow10(k - 1)

\* Python round(x, ndigits) on a non-negative value: to nearest, ties to even
RoundTo(x, ndigits) ==
    LET p   == Pow10(ndigits)
        num == x.n * p
        q   == num \div x.d
        r   == num % x.d
        up  == \/ 2 * r > x.d
               \/ (2 * r = x.d /\ q % 2 = 1)
    IN  Rat(IF up THEN q + 1 ELSE q, p)

Null == <<>>
Some(x) == <<x>>

-----------------------------------------------------------------------------
(* The static taxonomy: sections, areas and questions in display order.    *)

SectionIds == <<"FC", "TC", "EI", "SG">>
Sections == {SectionIds[i] : i \in 1..Len(SectionIds)}

AreaIds == <<"FC1", "FC2", "TC1", "EI1", "SG1">>
Areas == {AreaIds[i] : i \in 1..Len(AreaIds)}

AreaSection ==
    [a \in Areas |->
        CASE a \in {"FC1", "FC2"} -> "FC"
          [] a = "TC1" -> "TC"
          [] a = "EI1" -> "EI"
          [] a = "SG1" -> "SG"]

QuestionIds == <<"q1", "q2", "q3", "q4", "q5", "q6">>
Questions == {QuestionIds[i] : i \in 1..Len(QuestionIds)}

QuestionArea ==
    [q \in Questions |->
        CASE q \in {"q1", "q2"} -> "FC1"
          [] q = "q3" -> "FC2"
          [] q = "q4" -> "TC1"
          [] q = "q5" -> "EI1"
          [] q = "q6" -> "SG1"]

QuestionSection == [q \in Questions |-> AreaSection[QuestionArea[q]]]

\* a sequence restricted to the elements satisfying a membership test, order kept
RECURSIVE SelectIn(_, _)
SelectIn(s, S) ==
    IF s = <<>> THEN <<>>
    ELSE IF Head(s) \in S THEN <<Head(s)>> \o SelectIn(Tail(s), S)
         ELSE SelectIn(Tail(s), S)

AreasOf(sid) == SelectIn(AreaIds, {a \in Areas : AreaSection[a] = sid})
QuestionsOfArea(a) == SelectIn(QuestionIds, {q \in Questions : QuestionArea[q] = a})
QuestionsOfSection(sid) == {q \in Questions : QuestionSection[q] = sid}

TotalQuestions == Cardinality(Questions)

-----------------------------------------------------------------------------
(* Table constraints (app/models/response.py, app/models/assessment.py).   *)

\* a constraint as wide as the range the submit route and the API schema accept
check_score_range_1_to_5(score) == score >= 1 /\ score <= 5

\* CheckConstraint check_score_range on responses.score
check_score_range(score) == score >= 1 /\ score <= 4

\* a table without the unique constraint
no_unique_constraint(table) == TRUE

\* UniqueConstraint uq_response_assessment_question
uq_response_assessment_question(table) == \A q \in Questions : Len(table[q]) <= 1

\* CheckConstraint check_assessment_status
check_assessment_status(st) == st \in {"IN_PROGRESS", "COMPLETED", "DRAFT"}

\* CheckConstraints check_*_score_positive on the five score columns
check_score_positive(col) == col = Null \/ col[1].n >= 0

\* a commit of the responses table goes through iff every row satisfies the
\* table's constraints
ResponsesCommitOK(table) ==
    /\ \A q \in Questions : \A i \in 1..Len(table[q]) : check_score_range(table[q][i])
    /\ uq_response_assessment_question(table)

\* a commit of the assessment row goes through iff the row satisfies them
AssessmentCommitOK(st, overall, cols) ==
    /\ check_assessment_status(st)
    /\ check_score_positive(overall)
    /\ \A sid \in Sections : check_score_positive(cols[sid])

-----------------------------------------------------------------------------
(* Reading the responses table.                                            *)

\* len(responses): the number of response rows of the assessment
RowCount(table) ==
    LET RECURSIVE cnt(_)
        cnt(k) == IF k = 0 THEN 0 ELSE Len(table[QuestionIds[k]]) + cnt(k - 1)
    IN  cnt(Len(QuestionIds))

\* query(Response).filter_by(assessment, question).first()
HasRow(table, q) == Len(table[q]) > 0
FirstRow(table, q) == table[q][1]

\* the scores of all rows of the questions in qs (a sequence of question ids)
RECURSIVE RowsOf(_, _)
RowsOf(table, qs) ==
    IF qs = <<>> THEN <<>> ELSE table[Head(qs)] \o RowsOf(table, Tail(qs))

\* responses_dict = {r.question_id: r for r in responses}: the last row wins
DictRowsOf(table, qs) ==
    LET RECURSIVE go(_)
        go(s) == IF s = <<>> THEN <<>>
                 ELSE (IF HasRow(table, Head(s))
                       THEN <<table[Head(s)][Len(table[Head(s)])]>> ELSE <<>>)
                      \o go(Tail(s))
    IN  go(qs)

RECURSIVE IntSum(_)
IntSum(s) == IF s = <<>> THEN 0 ELSE Head(s) + IntSum(Tail(s))

\* sum(scores) / len(scores) of a non-empty list of integer scores
Mean(scores) == Rat(IntSum(scores), Len(scores))

\* answered / total * 100
Percentage(answered, total) ==
    IF total > 0 THEN Rat(answered * 100, total) ELSE RatInt(0)

-----------------------------------------------------------------------------
(* app/utils/scoring_utils.py                                              *)

MIN_SCORE == RatInt(1)
MAX_SCORE == RatInt(4)

Err == [ok |-> FALSE, value |-> RatInt(0)]
Ok(v) == [ok |-> TRUE, value |-> v]

RECURSIVE WeightedSum(_, _)
WeightedSum(scores, weights) ==
    IF scores = <<>> THEN RatInt(0)
    ELSE RatAdd(RatMul(Head(scores), Head(weights)),
                WeightedSum(Tail(scores), Tail(weights)))

\* a variant that answers an empty list with the value zero
AverageOrZero(scores, weights) ==
    IF scores = <<>> THEN Ok(RatInt(0))
    ELSE IF Len(scores) # Len(weights) THEN Err
    ELSE IF RatSum(weights).n = 0 THEN Err
    ELSE Ok(Rat(WeightedSum(scores, weights).n * RatSum(weights).d,
                WeightedSum(scores, weights).d * RatSum(weights).n))

\* calculate_weighted_average: Err stands for the ValueError it raises
calculate_weighted_average(scores, weights) ==
    IF scores = <<>> THEN Err
    ELSE IF Len(scores) # Len(weights) THEN Err
    ELSE LET total_weight == RatSum(weights)
         IN  IF total_weight.n = 0 THEN Err
             ELSE Ok(Rat(WeightedSum(scores, weights).n * total_weight.d,
                         WeightedSum(scores, weights).d * total_weight.n))

\* calculate_weighted_average called with or without its second argument
\* (Null: weights omitted, lines 51-52)
WeightedAverageCalled(scores, weights) ==
    calculate_weighted_average(scores,
        IF weights = Null THEN [i \in 1..Len(scores) |-> RatInt(1)] ELSE weights[1])

\* validate_score_inputs: TRUE when it returns, FALSE when it raises
validate_score_inputs(scores, weights) ==
    /\ scores # <<>>
    /\ \A i \in 1..Len(scores) : RatLE(MIN_SCORE, scores[i]) /\ RatLE(scores[i], MAX_SCORE)
    /\ Len(weights) = Len(scores)
    /\ \A i \in 1..Len(weights) : weights[i].n >= 0
    /\ RatSum(weights).n # 0

\* a variant whose bands begin just above their thresholds
ClassifyAboveThreshold(deviq_score) ==
    LET s == RatMax(MIN_SCORE, RatMin(MAX_SCORE, deviq_score))
    IN  IF RatLT(Rat(33, 10), s) THEN "FIRST"
        ELSE IF RatLT(Rat(25, 10), s) THEN "AUGMENTED"
        ELSE IF RatLT(Rat(18, 10), s) THEN "ASSISTED"
        ELSE "TRADITIONAL"

\* classify_maturity_level: clamp, then the bands from the highest threshold down
classify_maturity_level(deviq_score) ==
    LET s == RatMax(MIN_SCORE, RatMin(MAX_SCORE, deviq_score))
    IN  IF RatLE(Rat(33, 10), s) THEN "FIRST"
        ELSE IF RatLE(Rat(25, 10), s) THEN "AUGMENTED"
        ELSE IF RatLE(Rat(18, 10), s) THEN "ASSISTED"
        ELSE "TRADITIONAL"

\* a variant without the clamp into [0.0, 1.0]
CoverageUnclamped(responses_count, total_questions) ==
    IF total_questions <= 0 THEN RatInt(0) ELSE Rat(responses_count, total_questions)

\* calculate_section_coverage
calculate_section_coverage(responses_count, total_questions) ==
    IF total_questions <= 0 THEN RatInt(0)
    ELSE RatMin(RatInt(1), RatMax(RatInt(0), Rat(responses_count, total_questions)))

-----------------------------------------------------------------------------
(* app/services/scoring_service.py                                         *)

\* a sequence of n copies of x
Repeat(x, n) == [i \in 1..n |-> x]

\* a variant that enters an unanswered question with the score zero
ZeroForUnanswered(table, qs) ==
    [i \in 1..Len(qs) |->
        IF HasRow(table, qs[i]) THEN RatInt(FirstRow(table, qs[i])) ELSE RatInt(0)]

\* a variant that reads every score one level higher on a repeated call
ScoresRisingWithCalls(table, qs) ==
    LET RECURSIVE go(_)
        go(s) == IF s = <<>> THEN <<>>
                 ELSE (IF HasRow(table, Head(s))
                       THEN <<RatMax(RatInt(1),
                                     RatMin(RatInt(4),
                                            RatInt(FirstRow(table, Head(s)) + last.call)))>>
                       ELSE <<>>)
                      \o go(Tail(s))
    IN  go(qs)

\* float(response.score) clamped into [1.0, 4.0] for every answered question of the area
NormalizedScores(table, qs) ==
    LET RECURSIVE go(_)
        go(s) == IF s = <<>> THEN <<>>
                 ELSE (IF HasRow(table, Head(s))
                       THEN <<RatMax(RatInt(1), RatMin(RatInt(4), RatInt(FirstRow(table, Head(s)))))>>
                       ELSE <<>>)
                      \o go(Tail(s))
    IN  go(qs)

\* a variant that averages the scores of the area also when there are none
AreaScoreAlwaysAveraged(table, a) ==
    LET questions       == QuestionsOfArea(a)
        question_scores == NormalizedScores(table, questions)
        avg == calculate_weighted_average(question_scores,
                                          [i \in 1..Len(question_scores) |-> RatInt(1)])
    IN  [raised |-> ~avg.ok, score |-> IF avg.ok THEN avg.value ELSE MIN_SCORE,
         weight |-> RatInt(1),
         responses_count |-> Len(question_scores),
         total_questions |-> Len(questions),
         coverage |-> calculate_section_coverage(Len(question_scores), Len(questions))]

\* ScoringService._calculate_area_score
\* (raised |-> TRUE stands for an exception leaving the method)
calculate_area_score(table, a) ==
    LET questions       == QuestionsOfArea(a)
        question_scores == NormalizedScores(table, questions)
        weights         == Repeat(RatInt(1), Len(question_scores))
        avg             == calculate_weighted_average(question_scores, weights)
    IN  IF questions = <<>>
        THEN [raised |-> FALSE, score |-> MIN_SCORE, weight |-> RatInt(1),
              responses_count |-> 0, total_questions |-> 0, coverage |-> RatInt(0)]
        ELSE IF question_scores # <<>>
                /\ (~validate_score_inputs(question_scores, weights) \/ ~avg.ok)
        THEN [raised |-> TRUE, score |-> MIN_SCORE, weight |-> RatInt(1),
              responses_count |-> 0, total_questions |-> 0, coverage |-> RatInt(0)]
        ELSE [raised |-> FALSE,
              score |-> IF question_scores # <<>> THEN avg.value ELSE MIN_SCORE,
              weight |-> RatInt(1),
              responses_count |-> Len(question_scores),
              total_questions |-> Len(questions),
              coverage |-> calculate_section_coverage(Len(question_scores), Len(questions))]

\* a variant that weighs each area by the number of its questions
SectionScoreWeightedByQuestions(area_data) ==
    LET n       == Len(area_data)
        scores  == [i \in 1..n |-> area_data[i].score]
        weights == [i \in 1..n |-> RatInt(area_data[i].total_questions)]
    IN  [raised |-> FALSE,
         score |-> calculate_weighted_average(scores, weights).value,
         coverage |-> RatInt(1),
         responses_count |-> IntSum([i \in 1..n |-> area_data[i].responses_count]),
         total_questions |-> IntSum([i \in 1..n |-> area_data[i].total_questions])]

\* ScoringService._calculate_single_section_score, lines 182-224: the loop
\* over the areas' results and the weighted average of the areas' scores
SectionScoreOfAreas(area_data) ==
    LET n            == Len(area_data)
        area_scores  == [i \in 1..n |-> area_data[i].score]
        area_weights == [i \in 1..n |-> area_data[i].weight]
        total_responses == IntSum([i \in 1..n |-> area_data[i].responses_count])
        total_questions == IntSum([i \in 1..n |-> area_data[i].total_questions])
        avg          == calculate_weighted_average(area_scores, area_weights)
    IN  IF \/ \E i \in 1..n : area_data[i].raised
           \/ ~validate_score_inputs(area_scores, area_weights)
           \/ ~avg.ok
        THEN [raised |-> TRUE, score |-> MIN_SCORE, coverage |-> RatInt(0),
              responses_count |-> 0, total_questions |-> 0]
        ELSE [raised |-> FALSE, score |-> avg.value,
              coverage |-> calculate_section_coverage(total_responses, total_questions),
              responses_count |-> total_responses,
              total_questions |-> total_questions]

\* the result of _calculate_single_section_score for a section without areas
SectionWithoutAreas ==
    [raised |-> FALSE, score |-> MIN_SCORE, coverage |-> RatInt(0),
     responses_count |-> 0, total_questions |-> 0]

\* ScoringService._calculate_single_section_score
calculate_single_section_score(table, sid) ==
    LET areas     == AreasOf(sid)
        area_data == [i \in 1..Len(areas) |-> calculate_area_score(table, areas[i])]
    IN  IF areas = <<>> THEN SectionWithoutAreas
        ELSE SectionScoreOfAreas(area_data)

\* a variant that reports a section whose scoring raised with the score 0.0
FailedSectionGetsZero(table, failing) ==
    [sid \in Sections |->
        LET score_data == calculate_single_section_score(table, sid)
        IN  IF sid \in failing \/ score_data.raised
            THEN [score |-> RatInt(0), coverage |-> RatInt(0), responses_count |-> 0,
                  total_questions |-> 0, error |-> TRUE]
            ELSE [score |-> score_data.score, coverage |-> score_data.coverage,
                  responses_count |-> score_data.responses_count,
                  total_questions |-> score_data.total_questions, error |-> FALSE]]

\* ScoringService._calculate_section_scores: a section whose scoring raised
\* gets the defaults (MIN_SCORE, coverage 0.0, zero counts) and an error
\* entry. failing holds the sections for which _calculate_single_section_score
\* raises for a cause outside the responses: a query that fails, or an area
\* without a name (the column is nullable), whose area.name.lower() of line
\* 193 raises AttributeError
SectionScoresWhenFailing(table, failing) ==
    [sid \in Sections |->
        LET score_data == calculate_single_section_score(table, sid)
        IN  IF sid \in failing \/ score_data.raised
            THEN [score |-> MIN_SCORE, coverage |-> RatInt(0), responses_count |-> 0,
                  total_questions |-> 0, error |-> TRUE]
            ELSE [score |-> score_data.score, coverage |-> score_data.coverage,
                  responses_count |-> score_data.responses_count,
                  total_questions |-> score_data.total_questions, error |-> FALSE]]

\* ScoringService._calculate_section_scores when nothing outside the
\* responses fails
calculate_section_scores(table) == SectionScoresWhenFailing(table, {})

\* ScoringConstants.SECTION_WEIGHTS
SECTION_WEIGHTS ==
    [k \in {"foundational_capabilities", "transformation_capabilities",
            "enterprise_integration", "strategic_governance"} |-> Rat(25, 100)]

\* a variant that gives a key outside SECTION_WEIGHTS no weight
NoWeightForUnknownKey(sid) ==
    IF sid \in {"foundational_capabilities", "transformation_capabilities",
                "enterprise_integration", "strategic_governance"}
    THEN Rat(25, 100) ELSE RatInt(0)

\* ScoringConstants.SECTION_WEIGHTS.get(section_key, 0.25)
SectionWeight(sid) ==
    IF sid \in DOMAIN SECTION_WEIGHTS THEN SECTION_WEIGHTS[sid] ELSE Rat(25, 100)

\* ScoringService._calculate_deviq_score on the items of the section_scores
\* dict, each a key and a score (Null: the entry carries no score);
\* raised |-> TRUE stands for the ValueError of validate_score_inputs or of
\* calculate_weighted_average leaving the method
DeviqScoreOfItems(items) ==
    LET scored(it) == it.score # Null
        kept    == SelectSeq(items, scored)
        scores  == [i \in 1..Len(kept) |-> kept[i].score[1]]
        weights == [i \in 1..Len(kept) |-> SectionWeight(kept[i].key)]
        avg     == calculate_weighted_average(scores, weights)
    IN  IF items = <<>> THEN [raised |-> FALSE, value |-> MIN_SCORE]
        ELSE IF scores = <<>> THEN [raised |-> FALSE, value |-> MIN_SCORE]
        ELSE IF ~validate_score_inputs(scores, weights) \/ ~avg.ok
        THEN [raised |-> TRUE, value |-> MIN_SCORE]
        ELSE [raised |-> FALSE,
              value |-> RoundTo(RatMax(MIN_SCORE, RatMin(MAX_SCORE, avg.value)), 2)]

\* ScoringService._calculate_deviq_score on the dict that
\* _calculate_section_scores built (one scored entry per section)
calculate_deviq_score(section_scores) ==
    DeviqScoreOfItems([i \in 1..Len(SectionIds) |->
        [key |-> SectionIds[i], score |-> Some(section_scores[SectionIds[i]].score)]]).value

\* ScoringService._calculate_completion_status
calculate_completion_status(table) ==
    LET answered_questions == RowCount(table)
        completion_percentage == Percentage(answered_questions, TotalQuestions)
    IN  [total_questions |-> TotalQuestions,
         answered_questions |-> answered_questions,
         completion_percentage |-> RoundTo(completion_percentage, 1),
         is_complete |-> RatLE(RatInt(100), completion_percentage),
         is_substantial |-> RatLE(RatInt(80), completion_percentage)]

\* ScoringService.calculate_assessment_score, lines 62-90
AssessmentScoreWhenFailing(table, failing) ==
    LET section_scores == SectionScoresWhenFailing(table, failing)
        deviq_score    == calculate_deviq_score(section_scores)
    IN  [deviq_score |-> deviq_score,
         maturity_level |-> classify_maturity_level(deviq_score),
         section_scores |-> section_scores,
         completion_status |-> calculate_completion_status(table)]

\* ScoringService.calculate_assessment_score
calculate_assessment_score(table) == AssessmentScoreWhenFailing(table, {})

-----------------------------------------------------------------------------
(* Score computations of app/blueprints/assessment/routes.py               *)

SectionQuestionSeq(sid) == SelectIn(QuestionIds, QuestionsOfSection(sid))

\* generate_report: section_scores, the plain mean of the section's responses;
\* Null stands for a section id that is not a key of the dict
GenerateReportSectionScores(table) ==
    [sid \in Sections |->
        LET section_responses == RowsOf(table, SectionQuestionSeq(sid))
            truthy(x) == x # 0
            scores == SelectSeq(section_responses, truthy)
        IN  IF section_responses = <<>> THEN Null
            ELSE Some(IF scores # <<>> THEN Mean(scores) ELSE RatInt(0))]

\* generate_report: overall_score, the mean of the positive section scores
GenerateReportOverall(section_scores) ==
    LET present(sid) == section_scores[sid] # Null /\ section_scores[sid][1].n > 0
        keys   == SelectSeq(SectionIds, present)
        scores == [i \in 1..Len(keys) |-> section_scores[keys[i]][1]]
    IN  IF scores # <<>> THEN RatDivInt(RatSum(scores), Len(scores)) ELSE RatInt(0)

\* generate_report: deviq_classification
GenerateReportClassification(overall) ==
    IF RatLE(Rat(35, 10), overall) THEN "Optimized"
    ELSE IF RatLE(Rat(25, 10), overall) THEN "Advanced"
    ELSE IF RatLE(Rat(15, 10), overall) THEN "Evolving"
    ELSE "Basic"

\* helpers.get_maturity_level: the 'name' of the level shown on the index
\* page for the overall_score column (None or a number)
get_maturity_level(score_col) ==
    IF score_col = Null THEN "Not Assessed"
    ELSE LET s == score_col[1]
         IN  IF RatLE(RatInt(1), s) /\ RatLT(s, Rat(18, 10)) THEN "Traditional Development"
             ELSE IF RatLE(Rat(18, 10), s) /\ RatLT(s, Rat(25, 10)) THEN "AI-Assisted Development"
             ELSE IF RatLE(Rat(25, 10), s) /\ RatLT(s, Rat(33, 10)) THEN "AI-Augmented Development"
             ELSE IF RatLE(Rat(33, 10), s) /\ RatLE(s, RatInt(4)) THEN "AI-First Development"
             ELSE "Invalid Score"

\* section_scores.get(section_id, 0)
GetOrZero(section_scores, sid) ==
    IF section_scores[sid] = Null THEN Some(RatInt(0)) ELSE section_scores[sid]

\* report: section_score, the mean of the section's answered questions
\* (Null: the section is left out of the report)
ReportSectionScores(table) ==
    [sid \in Sections |->
        LET section_responses == DictRowsOf(table, SectionQuestionSeq(sid))
        IN  IF section_responses = <<>> THEN Null ELSE Some(Mean(section_responses))]

\* report: area_score, the mean of the area's answered questions
ReportAreaScores(table) ==
    [a \in Areas |->
        LET area_responses == DictRowsOf(table, QuestionsOfArea(a))
        IN  IF area_responses = <<>> THEN Null ELSE Some(Mean(area_responses))]

\* report: overall_score, the mean of all responses
ReportOverall(table) ==
    LET all_scores == DictRowsOf(table, QuestionIds)
    IN  IF all_scores # <<>> THEN Mean(all_scores) ELSE RatInt(0)

\* _get_maturity_level_from_score
get_maturity_level_from_score(score) ==
    IF RatLE(Rat(35, 10), score) THEN "AI-First"
    ELSE IF RatLE(Rat(25, 10), score) THEN "AI-Augmented"
    ELSE IF RatLE(Rat(15, 10), score) THEN "AI-Assisted"
    ELSE "Traditional"

-----------------------------------------------------------------------------
(* Request inputs.                                                         *)

\* values of a form field response_<question id>; "" is a field left empty
AnswerStrings == {"", "0", "3", "5", "x"}

\* Python int(answer_value); NotInt stands for the ValueError it raises
IsIntString(s) == s \in {"0", "3", "4", "5"}
IntOf(s) == CASE s = "0" -> 0 [] s = "3" -> 3 [] s = "4" -> 4 [] s = "5" -> 5

\* the values explored for the field response_<q>: left empty or level 3
\* everywhere, a second valid level in the area with two questions, and a
\* level above the scale next to fields that are valid
FieldStrings(q) ==
    CASE q = "q1" -> {"", "3", "4", "5"}
      [] q = "q2" -> {"", "3", "4"}
      [] OTHER    -> {"", "3"}

\* forms of the section pages: one field per question of the section
SectionFormTable ==
    [sid \in Sections |->
        {[q \in Questions |-> IF q \in QuestionsOfSection(sid) THEN g[q] ELSE ""] :
            g \in {f \in [QuestionsOfSection(sid) -> {"", "3", "4", "5"}] :
                       \A q \in QuestionsOfSection(sid) : f[q] \in FieldStrings(q)}}]

SectionForms(sid) == SectionFormTable[sid]

\* response commits explored after the assessment is COMPLETED
MaxLateSubmits == 1

\* a form carries a numeric score outside 1..4
FormOutOfRange(form) ==
    \E q \in Questions : IsIntString(form[q]) /\ ~(IntOf(form[q]) \in 1..4)

Finished(op, outcome, force, out_of_range) ==
    [op |-> op, outcome |-> outcome, force |-> force, out_of_range |-> out_of_range]

Slots == {1, 2}

Idle == [pc |-> "idle"]

-----------------------------------------------------------------------------
(* The state after the create route has stored a new assessment.           *)

Init ==
    /\ status = "IN_PROGRESS"
    /\ overall_score = Null
    /\ section_score_cols = [sid \in Sections |-> Null]
    /\ deviq_classification = "NULL"
    /\ completion_date = 0
    /\ responses = [q \in Questions |-> <<>>]
    /\ finalize_commits = 0
    /\ late_submits = 0
    /\ req = [i \in Slots |-> Idle]
    /\ last = Finished("create", "created", FALSE, FALSE)

NoneInFlight == \A i \in Slots : req[i].pc = "idle"

\* exploration bound on response commits after completion
LateSubmitExplored == status = "COMPLETED" => late_submits < MaxLateSubmits
LateSubmits(saved) ==
    IF saved /\ status = "COMPLETED" THEN late_submits + 1 ELSE late_submits

-----------------------------------------------------------------------------
(* Response submission.                                                    *)

\* submit_section_responses, lines 631-654: update the row found for a
\* question, add a row where none was found
ApplySectionForm(table, form, existing) ==
    [q \in Questions |->
        IF form[q] = "" THEN table[q]
        ELSE IF q \in existing THEN [table[q] EXCEPT ![1] = IntOf(form[q])]
        ELSE Append(table[q], IntOf(form[q]))]

\* int(answer_value) succeeds for every field that is filled in
SectionFormParses(form) == \A q \in Questions : form[q] # "" => IsIntString(form[q])

ExistingRows(table, form) == {q \in Questions : form[q] # "" /\ HasRow(table, q)}

\* the route submit_section_responses, served as one request
SubmitSectionResponses(sid, form) ==
    LET new   == ApplySectionForm(responses, form, ExistingRows(responses, form))
        saved == SectionFormParses(form) /\ ResponsesCommitOK(new)
    IN  /\ NoneInFlight
        /\ LateSubmitExplored
        /\ responses' = IF saved THEN new ELSE responses
        /\ late_submits' = LateSubmits(saved)
        /\ last' = Finished("submit_section_responses",
                            IF saved THEN "saved" ELSE "error",
                            FALSE, FormOutOfRange(form))
        /\ UNCHANGED <<assessment_cols, finalize_commits, req>>

\* the route submit_response (one question): the form checks, then the call
\* assessment_service.submit_response(**response_data), which passes the
\* keyword notes that the service method does not take; the question id is
\* only handed on to that call
SubmitResponseRouteOutcome(answer_value) ==
    IF answer_value = "" THEN "rejected"
    ELSE IF ~IsIntString(answer_value) THEN "rejected"
    ELSE IF IntOf(answer_value) < 1 \/ IntOf(answer_value) > 5 THEN "rejected"
    ELSE "error"

SubmitResponseRoute(answer_value) ==
    /\ NoneInFlight
    /\ last' = Finished("submit_response", SubmitResponseRouteOutcome(answer_value),
                        FALSE, IsIntString(answer_value) /\ ~(IntOf(answer_value) \in 1..4))
    /\ UNCHANGED <<assessment_cols, responses, finalize_commits, late_submits, req>>

\* answer values handed to AssessmentService.submit_response: strings and integers
AnswerValues ==
    {[is_str |-> TRUE, s |-> "3", i |-> 0]}
    \cup {[is_str |-> FALSE, s |-> "", i |-> i] : i \in {0, 3, 5}}

AnswerFalsy(av) == IF av.is_str THEN av.s = "" ELSE av.i = 0

\* Response.set_answer: TRUE when it stores the score, FALSE when it raises
\* (ValueError outside 1..4, TypeError on comparing a string with 1)
set_answer_ok(av) == ~av.is_str /\ 1 <= av.i /\ av.i <= 4

\* AssessmentService.submit_response. The row it updates is looked up and
\* written in one session; a row once stored is never deleted, so the call is
\* one step also between the steps of other requests.
ServiceSubmitResponseResult(st, table, q, av, validate_answer) ==
    LET new_table  == [table EXCEPT ![q] = [@ EXCEPT ![1] = av.i]]
        new_status == IF st = "draft" THEN "in_progress" ELSE st
    IN  IF st = "completed"
        THEN [outcome |-> "rejected", table |-> table, status |-> st]
        ELSE IF validate_answer
        THEN \* ResponseValidator.validate_response: ValidationError, or the
             \* AttributeError of question.get_answer_options()
             [outcome |-> IF AnswerFalsy(av) \/ ~av.is_str THEN "rejected" ELSE "error",
              table |-> table, status |-> st]
        ELSE IF ~HasRow(table, q)
        THEN \* Response(answer_value=...): no such column
             [outcome |-> "error", table |-> table, status |-> st]
        ELSE IF ~set_answer_ok(av)
        THEN [outcome |-> "error", table |-> table, status |-> st]
        ELSE IF ResponsesCommitOK(new_table) /\ check_assessment_status(new_status)
        THEN [outcome |-> "saved", table |-> new_table, status |-> new_status]
        ELSE [outcome |-> "error", table |-> table, status |-> st]

ServiceSubmitResponse(q, av, validate_answer) ==
    LET r == ServiceSubmitResponseResult(status, responses, q, av, validate_answer)
    IN  /\ LateSubmitExplored
        /\ responses' = r.table
        /\ status' = r.status
        /\ late_submits' = LateSubmits(r.outcome = "saved")
        /\ last' = Finished("service_submit_response", r.outcome, FALSE,
                            IF av.is_str THEN IsIntString(av.s) /\ ~(IntOf(av.s) \in 1..4)
                            ELSE ~(av.i \in 1..4))
        /\ UNCHANGED <<overall_score, section_score_cols, deviq_classification,
                       completion_date, finalize_commits, req>>

\* scores posted to the responses API: below the scale, on it, above it
ApiScores == {0, 3, 5}

\* ResponseSubmissionResource.post: schema check (score 1..5), status check,
\* then a call of submit_response with keywords the method does not take
ApiSubmitResponseOutcome(st, score) ==
    IF score < 1 \/ score > 5 THEN "error"
    ELSE IF st \notin {"draft", "in_progress"} THEN "rejected"
    ELSE "error"

ApiSubmitResponse(score) ==
    /\ NoneInFlight
    /\ last' = Finished("api_submit_response", ApiSubmitResponseOutcome(status, score),
                        FALSE, ~(score \in 1..4))
    /\ UNCHANGED <<assessment_cols, responses, finalize_commits, late_submits, req>>

-----------------------------------------------------------------------------
(* Finalization.                                                           *)

\* a gate at half of the questions
BelowHalf(completion_percentage) == RatLT(completion_percentage, RatInt(50))

\* the gate of generate_report, line 839
BelowReportThreshold(completion_percentage) == RatLT(completion_percentage, RatInt(80))

\* generate_report, lines 817-956, on the responses it reads: the completion
\* gate, the scores, the UPDATE and its commit
GenerateReportResult(table, force) ==
    LET answered_questions    == RowCount(table)
        completion_percentage == Percentage(answered_questions, TotalQuestions)
        section_scores        == GenerateReportSectionScores(table)
        overall               == GenerateReportOverall(section_scores)
        cols                  == [sid \in Sections |-> GetOrZero(section_scores, sid)]
    IN  IF ~force /\ BelowReportThreshold(completion_percentage)
        THEN [outcome |-> "rejected", overall |-> Null, cols |-> cols,
              classification |-> "NULL"]
        ELSE IF AssessmentCommitOK("COMPLETED", Some(overall), cols)
        THEN [outcome |-> "completed", overall |-> Some(overall), cols |-> cols,
              classification |-> GenerateReportClassification(overall)]
        ELSE [outcome |-> "error", overall |-> Null, cols |-> cols,
              classification |-> "NULL"]

\* a variant that marks the assessment as completed the way
\* Assessment.complete_assessment does, status and completion date only, and
\* commits that
GenerateReportStatusOnly(force) ==
    LET r == GenerateReportResult(responses, force)
    IN  /\ IF r.outcome = "completed"
           THEN /\ status' = "COMPLETED"
                /\ finalize_commits' = finalize_commits + 1
                /\ completion_date' = finalize_commits + 1
                /\ UNCHANGED <<overall_score, section_score_cols, deviq_classification>>
           ELSE UNCHANGED <<assessment_cols, finalize_commits>>
        /\ last' = Finished("generate_report", r.outcome, force, FALSE)
        /\ UNCHANGED responses

\* the state change of generate_report past its status check
GenerateReportWrite(force) ==
    LET r == GenerateReportResult(responses, force)
    IN  /\ IF r.outcome = "completed"
           THEN /\ status' = "COMPLETED"
                /\ overall_score' = r.overall
                /\ section_score_cols' = r.cols
                /\ deviq_classification' = r.classification
                /\ finalize_commits' = finalize_commits + 1
                /\ completion_date' = finalize_commits + 1
           ELSE UNCHANGED <<assessment_cols, finalize_commits>>
        /\ last' = Finished("generate_report", r.outcome, force, FALSE)
        /\ UNCHANGED responses

\* the route generate_report, served as one request
GenerateReport(force) ==
    /\ NoneInFlight
    /\ IF status = "COMPLETED"
       THEN /\ last' = Finished("generate_report", "already_completed", force, FALSE)
            /\ UNCHANGED <<assessment_cols, responses, finalize_commits>>
       ELSE GenerateReportWrite(force)
    /\ UNCHANGED <<late_submits, req>>

\* AssessmentService.get_assessment_progress
get_assessment_progress(table) ==
    LET responded_questions == RowCount(table)
    IN  [total_questions |-> TotalQuestions,
         responded_questions |-> responded_questions,
         progress_percentage |-> RoundTo(Percentage(responded_questions, TotalQuestions), 1),
         is_complete |-> responded_questions >= TotalQuestions]

\* the tables of the declarative base, the keys of Assessment.metadata
MetaDataTables ==
    {"assessments", "responses", "sections", "areas", "questions",
     "maturity_progressions"}

\* the depth of nested calls of complete_assessment the interpreter allows
MaxCallDepth == 3

\* AssessmentService.complete_assessment. Past the completeness check the
\* method scores, sets status = 'completed' and then calls update() on
\* assessment.metadata, which is the table MetaData of the declarative base:
\* the AttributeError is caught, the session rolled back and AssessmentError
\* raised, so nothing the method assigned is committed.
\* The outcome comes with the depth of the deepest call of the method.
\* _get_completion_results calls complete_assessment(assessment.id, force=True)
\* when 'deviq_score' is not in assessment.metadata, which for the MetaData
\* object asks whether a table has that name; at a depth above MaxCallDepth
\* the interpreter raises RecursionError, which the except Exception clause of
\* _get_completion_results turns into AssessmentError.
RECURSIVE complete_assessment_call(_, _, _, _)
RECURSIVE get_completion_results(_, _, _)
complete_assessment_call(st, table, force, depth) ==
    LET progress == get_assessment_progress(table)
    IN  IF depth > MaxCallDepth THEN [outcome |-> "error", calls |-> depth]
        ELSE IF st = "completed" THEN get_completion_results(st, table, depth)
        ELSE IF ~force /\ ~progress.is_complete
             THEN [outcome |-> "rejected", calls |-> depth]
        ELSE [outcome |-> "error", calls |-> depth]

\* AssessmentService._get_completion_results
get_completion_results(st, table, depth) ==
    IF ~("deviq_score" \in MetaDataTables)
    THEN LET r == complete_assessment_call(st, table, TRUE, depth + 1)
         IN  IF r.outcome = "already_completed" THEN r
             ELSE [r EXCEPT !.outcome = "error"]
    ELSE [outcome |-> "already_completed", calls |-> depth]

complete_assessment(st, table, force) ==
    complete_assessment_call(st, table, force, 1).outcome

\* AssessmentService.complete_assessment called directly; it commits nothing,
\* so it is one step also between the steps of other requests
CompleteAssessment(force) ==
    /\ LET r == complete_assessment_call(status, responses, force, 1)
       IN  last' = Finished("complete_assessment", r.outcome, force, FALSE)
                       @@ [calls |-> r.calls]
    /\ UNCHANGED <<assessment_cols, responses, finalize_commits, late_submits, req>>

\* the gate of the route finalize, line 1442
BelowFinalizeThreshold(progress_percentage) == RatLT(progress_percentage, RatInt(80))

\* the route finalize: its own status check and gate, then complete_assessment;
\* what that call raises is caught at line 1487 and reported as a scoring
\* error. Had the call returned, steps 3 and 4 call generate_recommendations
\* and update_assessment_results, which the services do not define.
FinalizeOutcome(st, table, force) ==
    LET progress == get_assessment_progress(table)
    IN  IF st = "COMPLETED" THEN "already_completed"
        ELSE IF ~force /\ BelowFinalizeThreshold(progress.progress_percentage)
        THEN "rejected"
        ELSE \* whatever complete_assessment(st, table, force) does, the try
             \* block of lines 1449-1491 ends in the handler of line 1487
             "error"

Finalize(force) ==
    /\ NoneInFlight
    /\ last' = Finished("finalize", FinalizeOutcome(status, responses, force), force, FALSE)
    /\ UNCHANGED <<assessment_cols, responses, finalize_commits, late_submits, req>>

\* ProgressValidator.min_completion_percentage
min_completion_percentage == RatInt(80)

\* ProgressValidator.validate_completion_eligibility: TRUE when it returns,
\* FALSE when it raises ValidationError
validate_completion_eligibility(total_questions, answered_questions, force) ==
    IF force THEN TRUE
    ELSE IF total_questions = 0 THEN FALSE
    ELSE ~RatLT(Percentage(answered_questions, total_questions), min_completion_percentage)

\* the validator applied to the counts of the assessment
ValidateCompletionEligibility(force) ==
    /\ NoneInFlight
    /\ last' = Finished("validate_completion_eligibility",
                        IF validate_completion_eligibility(TotalQuestions,
                                                           RowCount(responses), force)
                        THEN "eligible" ELSE "rejected",
                        force, FALSE)
    /\ UNCHANGED <<assessment_cols, responses, finalize_commits, late_submits, req>>

\* the route report: shown for a completed assessment only
Report ==
    /\ NoneInFlight
    /\ last' = Finished("report", IF status # "COMPLETED" THEN "not_completed" ELSE "shown",
                        FALSE, FALSE)
    /\ UNCHANGED <<assessment_cols, responses, finalize_commits, late_submits, req>>

-----------------------------------------------------------------------------
Next ==
    \/ \E sid \in Sections : \E form \in SectionForms(sid) : SubmitSectionResponses(sid, form)
    \/ \E a \in AnswerStrings : SubmitResponseRoute(a)
    \/ \E q \in Questions : \E av \in AnswerValues : \E v \in BOOLEAN :
          ServiceSubmitResponse(q, av, v)
    \/ \E score \in ApiScores : ApiSubmitResponse(score)
    \/ \E force \in BOOLEAN : GenerateReport(force)
    \/ \E force \in BOOLEAN : Finalize(force)
    \/ \E force \in BOOLEAN : CompleteAssessment(force)
    \/ \E force \in BOOLEAN : ValidateCompletionEligibility(force)
    \/ Report

Spec == Init /\ [][Next]_vars

-----------------------------------------------------------------------------
(* Two requests in flight. Each worker serves a request in its own database *)
(* session; a handler reads, computes on what it read, then commits, and    *)
(* another request's commit can fall between its read and its commit.       *)

\* the assessment the two requests meet: sections FC, TC and EI answered with
\* level 3 through their section forms, section SG not yet answered (5 of 6)
InitConc ==
    /\ status = "IN_PROGRESS"
    /\ overall_score = Null
    /\ section_score_cols = [sid \in Sections |-> Null]
    /\ deviq_classification = "NULL"
    /\ completion_date = 0
    /\ responses = [q \in Questions |-> IF QuestionSection[q] = "SG" THEN <<>> ELSE <<3>>]
    /\ finalize_commits = 0
    /\ late_submits = 0
    /\ req = [i \in Slots |-> Idle]
    /\ last = Finished("submit_section_responses", "saved", FALSE, FALSE)

\* forms of the SG section page posted by the two requests
ConcForms ==
    {[q \in Questions |-> IF q \in QuestionsOfSection("SG") THEN g[q] ELSE ""] :
        g \in [QuestionsOfSection("SG") -> {"3", "4"}]}

\* submit_section_responses up to the row lookups of line 633
SubmitSectionRead(i, sid, form) ==
    /\ req[i].pc = "idle"
    /\ LateSubmitExplored
    /\ req' = [req EXCEPT ![i] = [pc |-> "submit_read", sid |-> sid, form |-> form,
                                  existing |-> ExistingRows(responses, form)]]
    /\ UNCHANGED <<assessment_cols, responses, finalize_commits, late_submits, last>>

\* submit_section_responses from the assignments of lines 640-654 to the
\* commit of line 657
SubmitSectionCommit(i) ==
    LET form  == req[i].form
        new   == ApplySectionForm(responses, form, req[i].existing)
        saved == SectionFormParses(form) /\ ResponsesCommitOK(new)
    IN  /\ req[i].pc = "submit_read"
        /\ LateSubmitExplored
        /\ responses' = IF saved THEN new ELSE responses
        /\ late_submits' = LateSubmits(saved)
        /\ last' = Finished("submit_section_responses",
                            IF saved THEN "saved" ELSE "error",
                            FALSE, FormOutOfRange(form))
        /\ req' = [req EXCEPT ![i] = Idle]
        /\ UNCHANGED <<assessment_cols, finalize_commits>>

\* generate_report up to the status check of line 812
GenerateReportRead(i, force) ==
    /\ req[i].pc = "idle"
    /\ IF status = "COMPLETED"
       THEN /\ last' = Finished("generate_report", "already_completed", force, FALSE)
            /\ UNCHANGED req
       ELSE /\ req' = [req EXCEPT ![i] = [pc |-> "report_read", force |-> force]]
            /\ UNCHANGED last
    /\ UNCHANGED <<assessment_cols, responses, finalize_commits, late_submits>>

\* generate_report from the response query of line 818 to the commit of
\* line 940
GenerateReportCommit(i) ==
    /\ req[i].pc = "report_read"
    /\ GenerateReportWrite(req[i].force)
    /\ req' = [req EXCEPT ![i] = Idle]
    /\ UNCHANGED late_submits

NextConc ==
    \/ \E i \in Slots : \E form \in ConcForms : SubmitSectionRead(i, "SG", form)
    \/ \E i \in Slots : SubmitSectionCommit(i)
    \/ \E i \in Slots : \E force \in BOOLEAN : GenerateReportRead(i, force)
    \/ \E i \in Slots : GenerateReportCommit(i)
    \/ \E q \in QuestionsOfSection("SG") : \E av \in AnswerValues : \E v \in BOOLEAN :
          ServiceSubmitResponse(q, av, v)
    \/ \E force \in BOOLEAN : CompleteAssessment(force)

SpecConc == InitConc /\ [][NextConc]_vars

-----------------------------------------------------------------------------
(* app/utils/recommendation_utils.py: rank_recommendations.                *)
(*                                                                         *)
(* The sort key is a Python float. A float is held as [t, e]: the decimal   *)
(* value t / FloatBase plus e units of 2^-56 / FloatBase, so that the      *)
(* literals 0.4, 0.3, 0.2, 0.1 and 0.8 are the doubles nearest to them and *)
(* every product, sum and difference is rounded to 53 significant bits, to *)
(* nearest, ties to even.                                                  *)

RECURSIVE Pow2(_)
Pow2(j) == IF j = 0 THEN 1 ELSE 2 * Pow2(j - 1)

\* a double is held as [t, e]: the value t / FloatBase + e * unit, where one
\* unit is 2^-56 / FloatBase; t carries the decimal value and e the distance
\* of the double from it
FloatBase == 125 * Pow2(5)

\* 2^n modulo 125
RECURSIVE Pow2Mod125(_)
Pow2Mod125(n) == IF n = 0 THEN 1 ELSE (2 * Pow2Mod125(n - 1)) % 125

\* the k for which one unit in the last place of the double t / FloatBase + e
\* is 125 * 2^k units: 2^-56 (k = 5) in [1/16, 1/8) up to 2^-50 in [4, 8)
UlpExp(t, e) ==
    LET AtLeast(k) == IF k >= 4 THEN t >= 125 * Pow2(k - 4) ELSE t * Pow2(4 - k) >= 125
        Exactly(k) == IF k >= 4 THEN t = 125 * Pow2(k - 4) ELSE t * Pow2(4 - k) = 125
        RECURSIVE find(_)
        find(k) == IF k = 0 \/ AtLeast(k) THEN k ELSE find(k - 1)
        k0 == find(12)
    IN  IF e < 0 /\ Exactly(k0) /\ k0 > 0 THEN k0 - 1 ELSE k0

\* (t * 2^56 + e) modulo 125 * 2^k: the value in units modulo one unit in the
\* last place
FloatMod(t, e, k) ==
    ((Pow2(k) * ((t * Pow2Mod125(56 - k)) % 125)) + e) % (125 * Pow2(k))

\* rounding of an exact result to the nearest double, ties to even; s is the
\* sign of the part of the exact result that is smaller than a unit
FloatRoundTie(v, s) ==
    IF v.t = 0 /\ v.e = 0 THEN [t |-> 0, e |-> 0]
    ELSE LET k   == UlpExp(v.t, v.e)
             ulp == 125 * Pow2(k)
             r   == FloatMod(v.t, v.e, k)
             odd == FloatMod(v.t, v.e, k + 1) # r
             up  == 2 * r > ulp \/ (2 * r = ulp /\ (s > 0 \/ (s = 0 /\ odd)))
         IN  [t |-> v.t,
              e |-> IF r = 0 THEN v.e ELSE IF up THEN v.e - r + ulp ELSE v.e - r]

FloatRound(v) == FloatRoundTie(v, 0)

\* the double of a decimal literal of t / FloatBase, and of an int
FloatLit(t) == FloatRound([t |-> t, e |-> 0])
FloatInt(n) == [t |-> n * FloatBase, e |-> 0]

\* the float literals of lines 487-490
Float04 == FloatLit(4 * (FloatBase \div 10))
Float03 == FloatLit(3 * (FloatBase \div 10))
Float02 == FloatLit(2 * (FloatBase \div 10))
Float01 == FloatLit(FloatBase \div 10)

\* a * b, a + b, a - b and a < b for floats
FloatSign(n) == IF n > 0 THEN 1 ELSE IF n < 0 THEN 0 - 1 ELSE 0
FloatMul(a, b) ==
    FloatRoundTie([t |-> (a.t * b.t) \div FloatBase,
                   e |-> (a.t * b.e + b.t * a.e) \div FloatBase],
                  FloatSign(a.e) * FloatSign(b.e))
FloatMulInt(n, c) == FloatMul(FloatInt(n), c)
FloatAdd(a, b) == FloatRound([t |-> a.t + b.t, e |-> a.e + b.e])
FloatSub(a, b) == FloatRound([t |-> a.t - b.t, e |-> a.e - b.e])
FloatLT(a, b) == a.t < b.t \/ (a.t = b.t /\ a.e < b.e)
FloatMin(a, b) == IF FloatLT(b, a) THEN b ELSE a

\* priority_scores.get(rec.get("priority", "medium"), 2), and the same for
\* impact and feasibility (Null: the key is missing)
LevelScore(field) ==
    LET v == IF field = Null THEN "medium" ELSE field[1]
    IN  IF v = "high" THEN 3 ELSE IF v = "medium" THEN 2 ELSE IF v = "low" THEN 1 ELSE 2

\* rec.get("score_improvement", 0), as the float the product with 0.1 takes
ScoreImprovement(rec) ==
    IF rec.score_improvement = Null THEN FloatInt(0) ELSE rec.score_improvement[1]

\* priority_score(rec), lines 460-490
priority_score(rec) ==
    FloatAdd(FloatAdd(FloatAdd(FloatMulInt(LevelScore(rec.priority), Float04),
                               FloatMulInt(LevelScore(rec.impact), Float03)),
                      FloatMulInt(LevelScore(rec.feasibility), Float02)),
             FloatMul(ScoreImprovement(rec), Float01))

\* sorted(..., reverse=True) is stable: an element goes behind the elements
\* placed before it whose key is not smaller
\* (the list and the key are bound as values, so that each is computed once)
RankInsert(sorted, rec) ==
    LET Place(placed, key) ==
            LET notSmaller(r) == ~FloatLT(priority_score(r), key)
                smaller(r)    == FloatLT(priority_score(r), key)
            IN  SelectSeq(placed, notSmaller) \o <<rec>> \o SelectSeq(placed, smaller)
    IN  CHOOSE result \in {Place(placed, key) :
                               placed \in {sorted}, key \in {priority_score(rec)}} : TRUE

\* rank_recommendations
RECURSIVE rank_recommendations(_)
rank_recommendations(recommendations) ==
    LET Ranked(recs) ==
            IF recs = <<>> THEN <<>>
            ELSE RankInsert(rank_recommendations(SubSeq(recs, 1, Len(recs) - 1)),
                            recs[Len(recs)])
    IN  CHOOSE result \in {Ranked(recs) : recs \in {recommendations}} : TRUE

\* impact_scores[impact], feasibility_scores[feasibility] (enum members)
EnumScore(level) == IF level = "high" THEN 3 ELSE IF level = "medium" THEN 2 ELSE 1

\* a variant that leaves the urgency of a low score out of the priority
PriorityWithoutUrgency(impact, feasibility, current_score, section_weight) ==
    LET combined_score == RatMul(Rat(4 * (EnumScore(impact) + EnumScore(feasibility)), 10),
                                 section_weight)
    IN  IF RatLE(Rat(25, 10), combined_score) THEN "high"
        ELSE IF RatLE(Rat(15, 10), combined_score) THEN "medium"
        ELSE "low"

\* calculate_recommendation_priority
calculate_recommendation_priority(impact, feasibility, current_score, section_weight) ==
    LET impact_score      == EnumScore(impact)
        feasibility_score == EnumScore(feasibility)
        score_urgency     == RatDivInt(RatAdd(RatInt(4), RatMul(RatInt(0 - 1), current_score)), 3)
        combined_score    ==
            RatMul(RatAdd(RatAdd(RatMul(RatInt(impact_score), Rat(4, 10)),
                                 RatMul(RatInt(feasibility_score), Rat(4, 10))),
                          RatMul(score_urgency, Rat(2, 10))),
                   section_weight)
    IN  IF RatLE(Rat(25, 10), combined_score) THEN "high"
        ELSE IF RatLE(Rat(15, 10), combined_score) THEN "medium"
        ELSE "low"

(***************************************************************************)
(* Strings: str.lower(), str.replace(" ", "_") and the test `k in text`.   *)
(***************************************************************************)
UpperCase == "ABCDEFGHIJKLMNOPQRSTUVWXYZ"
LowerCase == "abcdefghijklmnopqrstuvwxyz"

CharAt(s, i) == SubSeq(s, i, i)

LowerChar(c) ==
    IF \E i \in 1..Len(UpperCase) : CharAt(UpperCase, i) = c
    THEN CharAt(LowerCase, CHOOSE i \in 1..Len(UpperCase) : CharAt(UpperCase, i) = c)
    ELSE c

\* s.lower()
RECURSIVE Lower(_)
Lower(s) ==
    IF Len(s) = 0 THEN ""
    ELSE Lower(SubSeq(s, 1, Len(s) - 1)) \o LowerChar(CharAt(s, Len(s)))

\* s.replace(" ", "_")
RECURSIVE ReplaceSpaces(_)
ReplaceSpaces(s) ==
    IF Len(s) = 0 THEN ""
    ELSE ReplaceSpaces(SubSeq(s, 1, Len(s) - 1))
         \o (IF CharAt(s, Len(s)) = " " THEN "_" ELSE CharAt(s, Len(s)))

\* keyword in text
Contains(text, keyword) ==
    \E i \in 1..(Len(text) - Len(keyword) + 1) :
        SubSeq(text, i, i + Len(keyword) - 1) = keyword

\* the number of the keywords that occur in text
KeywordCount(keywords, text) ==
    Cardinality({i \in 1..Len(keywords) : Contains(text, keywords[i])})

(***************************************************************************)
(* The template table: the JSON of data/seeds/recommendations.json or the  *)
(* table of get_default_recommendations. A dict is the list of its items.  *)
(***************************************************************************)
JsonDict(items) == [type |-> "dict", items |-> items]
JsonList(items) == [type |-> "list", items |-> items]
JsonNull == [type |-> "null"]

HasKey(dict, key) == \E i \in 1..Len(dict.items) : dict.items[i].key = key

\* dict.get(key, default)
DictGet(dict, key, default) ==
    IF HasKey(dict, key)
    THEN dict.items[CHOOSE i \in 1..Len(dict.items) : dict.items[i].key = key].value
    ELSE default

Templates1To2 ==
    JsonDict(<<
        [key |-> "foundational_capabilities", value |-> JsonList(<<
             "Deploy basic AI assistants like GitHub Copilot for individual developers",
             "Conduct AI literacy training with prompt engineering basics",
             "Begin using AI for code completion and documentation",
             "Establish AI tool usage guidelines and best practices">>)],
        [key |-> "transformation_capabilities", value |-> JsonList(<<
             "Experiment with AI-assisted requirement analysis",
             "Begin AI-assisted test case generation for unit tests",
             "Add AI insights to CI/CD pipelines for build analysis",
             "Use AI for legacy system documentation">>)],
        [key |-> "enterprise_integration", value |-> JsonList(<<
             "Assess current AI tool costs and usage patterns",
             "Standardize AI tools across small teams",
             "Create inventory of systems for AI integration",
             "Establish data classification for AI usage">>)],
        [key |-> "strategic_governance", value |-> JsonList(<<
             "Create initial AI ethics awareness and guidelines",
             "Track AI tool usage and developer satisfaction",
             "Develop policies for AI-generated code IP concerns",
             "Monitor AI-related risks with basic oversight">>)]>>)

Templates2To3 ==
    JsonDict(<<
        [key |-> "foundational_capabilities", value |-> JsonList(<<
             "Scale to team-wide adoption with standardized toolchain",
             "Implement structured AI training programs",
             "Establish systematic AI code review processes",
             "Deploy automated documentation generation">>)],
        [key |-> "transformation_capabilities", value |-> JsonList(<<
             "Build AI systems for architecture proposal generation",
             "Implement comprehensive AI-driven testing (50-85%)",
             "Create intelligent CI/CD pipelines with optimization",
             "Develop AI-powered migration planning">>)],
        [key |-> "enterprise_integration", value |-> JsonList(<<
             "Implement enterprise-wide AI tool standards",
             "Deploy automated enterprise system integration",
             "Establish automated cost tracking and optimization",
             "Create systematic data governance framework">>)],
        [key |-> "strategic_governance", value |-> JsonList(<<
             "Establish comprehensive AI ethics framework",
             "Implement comprehensive productivity metrics",
             "Create structured change management programs",
             "Develop systematic compliance management">>)]>>)

Templates3To4 ==
    JsonDict(<<
        [key |-> "foundational_capabilities", value |-> JsonList(<<
             "Achieve enterprise-grade AI platform integration",
             "Develop advanced AI expertise across teams",
             "Implement AI-first development workflows",
             "Create intelligent knowledge systems">>)],
        [key |-> "transformation_capabilities", value |-> JsonList(<<
             "Deploy automated intent-to-architecture pipelines",
             "Achieve fully autonomous testing (85%+)",
             "Implement autonomous CI/CD with self-healing",
             "Complete autonomous legacy transformation">>)],
        [key |-> "enterprise_integration", value |-> JsonList(<<
             "Establish strategic AI vendor partnerships",
             "Achieve seamless AI-powered integrations",
             "Implement advanced cost optimization models",
             "Deploy advanced resilience systems">>)],
        [key |-> "strategic_governance", value |-> JsonList(<<
             "Implement automated ethics compliance monitoring",
             "Deploy advanced analytics with predictive modeling",
             "Achieve seamless multi-agent collaboration",
             "Lead strategic innovation programs">>)]>>)

\* get_default_recommendations
get_default_recommendations ==
    JsonDict(<<[key |-> "recommendations", value |-> JsonDict(<<
        [key |-> "level_transitions", value |-> JsonDict(<<
            [key |-> "1_to_2", value |-> Templates1To2],
            [key |-> "2_to_3", value |-> Templates2To3],
            [key |-> "3_to_4", value |-> Templates3To4]>>)]>>)]>>)

\* get_next_level_recommendations
get_next_level_recommendations(current_level) ==
    IF 4 < current_level + 1 THEN 4 ELSE current_level + 1

\* get_maturity_transition_key
get_maturity_transition_key(current_level, target_level) ==
    ToString(current_level) \o "_to_" \o ToString(target_level)

\* RecommendationService._maturity_level_to_number (level.name)
maturity_level_to_number(level) ==
    IF level = "TRADITIONAL" THEN 1 ELSE IF level = "ASSISTED" THEN 2
    ELSE IF level = "AUGMENTED" THEN 3 ELSE IF level = "FIRST" THEN 4 ELSE 1

\* RecommendationService._number_to_maturity_level (the name of the member)
number_to_maturity_level(number) ==
    IF number = 1 THEN "TRADITIONAL" ELSE IF number = 2 THEN "ASSISTED"
    ELSE IF number = 3 THEN "AUGMENTED" ELSE IF number = 4 THEN "FIRST"
    ELSE "TRADITIONAL"

quick_win_keywords ==
    <<"basic", "simple", "start", "begin", "deploy", "use", "add",
      "experiment", "introduce", "initial", "2-hour", "workshop">>
foundational_keywords ==
    <<"establish", "create", "implement", "systematic", "framework",
      "training", "standardize", "governance", "policy", "process">>
strategic_keywords ==
    <<"enterprise", "organization", "strategic", "comprehensive",
      "roadmap", "transformation", "culture", "leadership">>
transformational_keywords ==
    <<"autonomous", "automated", "ai-first", "intelligent", "advanced",
      "revolutionary", "paradigm", "reimagine", "reinvent">>

\* a variant that returns the name of the member instead of its value
ClassifyByMemberName(recommendation_text, impact, feasibility) ==
    LET text_lower == Lower(recommendation_text)
    IN  IF feasibility = "high" /\ impact \in {"low", "medium"}
           /\ KeywordCount(quick_win_keywords, text_lower) > 0
        THEN "QUICK_WIN"
        ELSE IF KeywordCount(transformational_keywords, text_lower) > 0 \/ impact = "high"
        THEN "TRANSFORMATIONAL"
        ELSE IF KeywordCount(strategic_keywords, text_lower) > 0 THEN "STRATEGIC"
        ELSE IF KeywordCount(foundational_keywords, text_lower) > 0 THEN "FOUNDATIONAL"
        ELSE IF feasibility = "high" THEN "QUICK_WIN"
        ELSE "FOUNDATIONAL"

\* classify_recommendation_type (the value of the member returned)
classify_recommendation_type(recommendation_text, impact, feasibility) ==
    LET text_lower             == Lower(recommendation_text)
        quick_win_count        == KeywordCount(quick_win_keywords, text_lower)
        foundational_count     == KeywordCount(foundational_keywords, text_lower)
        strategic_count        == KeywordCount(strategic_keywords, text_lower)
        transformational_count == KeywordCount(transformational_keywords, text_lower)
    IN  IF feasibility = "high" /\ impact \in {"low", "medium"} /\ quick_win_count > 0
        THEN "quick_win"
        ELSE IF transformational_count > 0 \/ impact = "high" THEN "transformational"
        ELSE IF strategic_count > 0 \/ Contains(text_lower, "enterprise") THEN "strategic"
        ELSE IF foundational_count > 0 THEN "foundational"
        ELSE IF feasibility = "high" THEN "quick_win"
        ELSE IF impact = "high" THEN "transformational"
        ELSE "foundational"

\* the double of a score that is a whole number of 1 / FloatBase
FloatOfRat(x) == FloatLit((x.n * FloatBase) \div x.d)

\* generate_recommendation_metadata (without effort_estimate and tags, which
\* nothing reads); the values read with .get are held as Some(value)
generate_recommendation_metadata(recommendation_text, section_name, current_score, target_score) ==
    LET text    == Lower(recommendation_text)
        impact1 == IF Contains(text, "comprehensive") THEN "high" ELSE "medium"
        impact2 == IF Contains(text, "autonomous") THEN "high" ELSE impact1
        feas2   == IF Contains(text, "autonomous") THEN "low" ELSE "medium"
        feas3   == IF Contains(text, "basic") THEN "high" ELSE feas2
        feasibility == IF Contains(text, "experiment") THEN "high" ELSE feas3
        impact      == IF Contains(text, "experiment") THEN "low" ELSE impact2
    IN  [type              |-> Some(classify_recommendation_type(recommendation_text,
                                                                 impact, feasibility)),
         priority          |-> Some(calculate_recommendation_priority(
                                        impact, feasibility, current_score, RatInt(1))),
         impact            |-> Some(impact),
         feasibility       |-> Some(feasibility),
         section           |-> section_name,
         current_score     |-> current_score,
         target_score      |-> target_score,
         score_improvement |-> Some(FloatSub(target_score, FloatOfRat(current_score)))]

\* a variant of the lookup that falls back on the templates of the last
\* transition when the table has none for the key
SectionTemplatesWithFallback(recommendation_templates, transition_key, section_key) ==
    LET recs        == DictGet(recommendation_templates, "recommendations", JsonDict(<<>>))
        transitions == DictGet(recs, "level_transitions", JsonDict(<<>>))
        key         == IF HasKey(transitions, transition_key) THEN transition_key
                       ELSE "3_to_4"
        transition  == DictGet(transitions, key, JsonDict(<<>>))
    IN  IF recommendation_templates.type # "dict" \/ recs.type # "dict"
           \/ transitions.type # "dict" \/ transition.type # "dict"
        THEN [raised |-> TRUE]
        ELSE [raised |-> FALSE, value |-> DictGet(transition, section_key, JsonList(<<>>))]

\* the chain of .get of lines 163-169: an AttributeError is raised where a
\* value on the way is not a dict
SectionTemplates(recommendation_templates, transition_key, section_key) ==
    LET recs        == DictGet(recommendation_templates, "recommendations", JsonDict(<<>>))
        transitions == DictGet(recs, "level_transitions", JsonDict(<<>>))
        transition  == DictGet(transitions, transition_key, JsonDict(<<>>))
    IN  IF recommendation_templates.type # "dict" \/ recs.type # "dict"
           \/ transitions.type # "dict" \/ transition.type # "dict"
        THEN [raised |-> TRUE]
        ELSE [raised |-> FALSE, value |-> DictGet(transition, section_key, JsonList(<<>>))]

\* RecommendationService._generate_section_recommendations: an exception in
\* the try block leaves the list as it is
generate_section_recommendations(recommendation_templates, section_data) ==
    LET section_name     == section_data.section_name
        current_score    == section_data.score
        section_key      == ReplaceSpaces(Lower(section_name))
        current_level    == classify_maturity_level(current_score)
        target_level_num == get_next_level_recommendations(
                                maturity_level_to_number(current_level))
        transition_key   == get_maturity_transition_key(
                                maturity_level_to_number(current_level), target_level_num)
        section_templates == SectionTemplates(recommendation_templates,
                                              transition_key, section_key)
        target_score     == FloatMin(FloatInt(4),
                                     FloatAdd(FloatOfRat(current_score),
                                              FloatLit(8 * (FloatBase \div 10))))
        recommendation(n) ==
            [id            |-> section_key \o "_" \o ToString(n),
             text          |-> section_templates.value.items[n],
             section_key   |-> section_key,
             current_level |-> current_level,
             target_level  |-> number_to_maturity_level(target_level_num)]
            @@ generate_recommendation_metadata(section_templates.value.items[n],
                                                section_name, current_score, target_score)
    IN  \* None is not iterable: a TypeError, caught as well
        IF section_templates.raised \/ section_templates.value.type # "list" THEN <<>>
        ELSE [n \in 1..Len(section_templates.value.items) |-> recommendation(n)]

\* rec.get("type", "foundational")
RecType(rec) == IF rec.type = Null THEN "foundational" ELSE rec.type[1]

\* RecommendationService._categorize_recommendations: a type that is none of
\* the four goes into no list
categorize_recommendations(recommendations) ==
    LET OfType(t) == SelectSeq(recommendations, LAMBDA rec : RecType(rec) = t)
    IN  [quick_wins       |-> OfType("quick_win"),
         foundational     |-> OfType("foundational"),
         strategic        |-> OfType("strategic"),
         transformational |-> OfType("transformational")]

\* all_recommendations after the loop over the sections of lines 75-80
RECURSIVE AllSectionRecommendations(_, _)
AllSectionRecommendations(recommendation_templates, section_scores) ==
    IF section_scores = <<>> THEN <<>>
    ELSE AllSectionRecommendations(recommendation_templates,
                                   SubSeq(section_scores, 1, Len(section_scores) - 1))
         \o generate_section_recommendations(recommendation_templates,
                                             section_scores[Len(section_scores)])

\* RecommendationService.generate_assessment_recommendations from the scoring
\* results on (the summary and the roadmap, which are derived from the list
\* returned, are left out)
generate_assessment_recommendations(recommendation_templates, score_results, max_recommendations, include_types) ==
    LET all_recommendations ==
            AllSectionRecommendations(recommendation_templates,
                                      score_results.section_scores)
        Filtered(all_recs) ==
            IF include_types # Null /\ include_types[1] # <<>>
            THEN SelectSeq(all_recs,
                           LAMBDA rec : \E i \in 1..Len(include_types[1]) :
                                           rec.type[1] = include_types[1][i])
            ELSE all_recs
        Top(ranked_recommendations) ==
            SubSeq(ranked_recommendations, 1,
                   IF max_recommendations < Len(ranked_recommendations)
                   THEN max_recommendations ELSE Len(ranked_recommendations))
        Results(top_recommendations) ==
            [deviq_score           |-> score_results.deviq_score,
             total_recommendations |-> Len(top_recommendations),
             all                   |-> top_recommendations,
             by_type               |-> categorize_recommendations(top_recommendations)]
    IN  \* each list is bound as a value, so that it is computed once
        CHOOSE results \in
            {Results(top) :
                top \in {Top(ranked) :
                    ranked \in {rank_recommendations(Filtered(all_recs)) :
                        all_recs \in {all_recommendations}}}} : TRUE

Levels == {"high", "medium", "low"}

\* the current scores a priority is calculated for: the twentieths of [1.0, 4.0]
PriorityCalls ==
    {[fn |-> "calculate_recommendation_priority", impact |-> i, feasibility |-> f,
      current_score |-> Rat(k, 20)] : i \in Levels, f \in Levels, k \in 20..80}

\* length of the list handed to rank_recommendations
MaxRecs == 3

\* recommendation dicts: levels set or missing, score_improvement 0, 1 or missing
RecChoices ==
    {[priority |-> Some("low"), impact |-> Some("medium"), feasibility |-> Some("high"),
      score_improvement |-> Some(FloatInt(0))],
     [priority |-> Some("medium"), impact |-> Some("medium"), feasibility |-> Some("low"),
      score_improvement |-> Some(FloatInt(0))],
     [priority |-> Some("high"), impact |-> Some("high"), feasibility |-> Some("high"),
      score_improvement |-> Some(FloatInt(1))],
     [priority |-> Null, impact |-> Null, feasibility |-> Null, score_improvement |-> Null],
     [priority |-> Some("medium"), impact |-> Null, feasibility |-> Some("medium"),
      score_improvement |-> Some(FloatInt(0))],
     [priority |-> Some("low"), impact |-> Some("low"), feasibility |-> Some("low"),
      score_improvement |-> Some(FloatInt(1))]}

\* the lists ranked; id is the place of the dict in the list
RankCalls ==
    {[fn |-> "rank_recommendations",
      recommendations |-> [i \in 1..Len(rs) |->
          [id |-> i, priority |-> rs[i].priority, impact |-> rs[i].impact,
           feasibility |-> rs[i].feasibility,
           score_improvement |-> rs[i].score_improvement]]] :
        rs \in UNION {[1..n -> RecChoices] : n \in 0..MaxRecs}}

\* the section names, section scores and template tables of the calls of
\* _generate_section_recommendations: a section without templates next to
\* the four of the default table, scores on both sides of every threshold,
\* and a seed file that holds {} or {"recommendations": null}
SectionNames ==
    {"Foundational Capabilities", "Transformation Capabilities",
     "Enterprise Integration", "Strategic Governance", "Research"}

RecommendationScores == {Rat(k, 100) : k \in {100, 179, 180, 249, 250, 329, 330, 400}}

TemplateTables ==
    {get_default_recommendations, JsonDict(<<>>),
     JsonDict(<<[key |-> "recommendations", value |-> JsonNull]>>)}

SectionRecommendationCalls ==
    {[fn |-> "generate_section_recommendations", recommendation_templates |-> t,
      section_data |-> [section_name |-> n, score |-> s]] :
        t \in TemplateTables, n \in SectionNames, s \in RecommendationScores}

\* the default of max_recommendations
DefaultMaxRecommendations == 20

\* the number of sections in the scoring results handed on
MaxRankedSections == 2

\* the section names of the scoring results, in the order of the sections
SectionNameOrder ==
    <<"Foundational Capabilities", "Transformation Capabilities",
      "Enterprise Integration", "Strategic Governance">>

\* scoring results: up to MaxRankedSections of the sections, in their order,
\* each with a score of one of the four levels
ScoreResultChoices ==
    {[deviq_score |-> RatInt(2),
      section_scores |-> [i \in 1..Len(names) |->
          [section_name |-> names[i], score |-> RatInt(scores[i])]]] :
        <<names, scores>> \in UNION {
            {ns \in [1..n -> {SectionNameOrder[k] : k \in 1..Len(SectionNameOrder)}] :
                \A i, j \in 1..n : i < j =>
                    \E a, b \in 1..Len(SectionNameOrder) :
                        a < b /\ ns[i] = SectionNameOrder[a] /\ ns[j] = SectionNameOrder[b]}
            \X [1..n -> 1..4] : n \in 1..MaxRankedSections}}

\* generate_assessment_recommendations with a small and the default limit,
\* without a type filter and with the filter of get_quick_wins
AssessmentRecommendationCalls ==
    {[fn |-> "generate_assessment_recommendations", score_results |-> r,
      max_recommendations |-> m, include_types |-> t] :
        r \in ScoreResultChoices, m \in {3, DefaultMaxRecommendations},
        t \in {Null, Some(<<"quick_win">>)}}

RecommendationCalls ==
    RankCalls \cup PriorityCalls \cup SectionRecommendationCalls
    \cup AssessmentRecommendationCalls

InitRanking ==
    /\ status = "IN_PROGRESS"
    /\ overall_score = Null
    /\ section_score_cols = [sid \in Sections |-> Null]
    /\ deviq_classification = "NULL"
    /\ completion_date = 0
    /\ responses = [q \in Questions |-> <<>>]
    /\ finalize_commits = 0
    /\ late_submits = 0
    /\ last = [op |-> "none", call |-> 0]
    /\ req \in RecommendationCalls

RankCall ==
    /\ req.fn = "rank_recommendations"
    /\ last.op = "none"
    /\ last' = [op |-> "rank_recommendations", call |-> 1,
                result |-> rank_recommendations(req.recommendations)]
    /\ UNCHANGED <<assessment_cols, responses, finalize_commits, late_submits, req>>

\* calculate_recommendation_priority with the default section_weight 1.0
PriorityCall ==
    /\ req.fn = "calculate_recommendation_priority"
    /\ last.op = "none"
    /\ last' = [op |-> "calculate_recommendation_priority", call |-> 1,
                result |-> calculate_recommendation_priority(
                               req.impact, req.feasibility, req.current_score, RatInt(1))]
    /\ UNCHANGED <<assessment_cols, responses, finalize_commits, late_submits, req>>

\* _generate_section_recommendations returns its list: no exception leaves it
GenerateSectionRecommendationsCall ==
    /\ req.fn = "generate_section_recommendations"
    /\ last.op = "none"
    /\ last' = [op |-> "generate_section_recommendations", call |-> 1,
                raised |-> FALSE,
                result |-> generate_section_recommendations(
                               req.recommendation_templates, req.section_data)]
    /\ UNCHANGED <<assessment_cols, responses, finalize_commits, late_submits, req>>

\* generate_assessment_recommendations with the default template table
GenerateAssessmentRecommendations ==
    /\ req.fn = "generate_assessment_recommendations"
    /\ last.op = "none"
    /\ last' = [op |-> "generate_assessment_recommendations", call |-> 1,
                raised |-> FALSE,
                result |-> generate_assessment_recommendations(
                               get_default_recommendations, req.score_results,
                               req.max_recommendations, req.include_types)]
    /\ UNCHANGED <<assessment_cols, responses, finalize_commits, late_submits, req>>

NextRanking ==
    \/ RankCall
    \/ PriorityCall
    \/ GenerateSectionRecommendationsCall
    \/ GenerateAssessmentRecommendations

SpecRanking == InitRanking /\ [][NextRanking]_vars

-----------------------------------------------------------------------------
(* The scoring functions called on their own. req holds the call and its   *)
(* arguments, last the call that returned last and what it returned; the   *)
(* scoring service reads the responses table.                              *)

\* the levels a stored row of question q takes in the tables that are scored
\* (check_score_range admits 1..4; at most one row per question)
RowChoices(q) ==
    IF q \in {"q1", "q2"} THEN {<<>>, <<1>>, <<2>>, <<3>>, <<4>>}
    ELSE IF q = "q3" THEN {<<>>, <<1>>, <<4>>}
    ELSE {<<>>, <<2>>, <<4>>}

ScoredTables == {t \in [Questions -> UNION {RowChoices(q) : q \in Questions}] :
                    \A q \in Questions : t[q] \in RowChoices(q)}

\* number of calls of calculate_assessment_score followed on one table
MaxCalls == 2

NoCall == [op |-> "none", call |-> 0]

\* number of areas of a section whose score is taken
MaxAreas == 3

\* all sequences over S of the lengths lo..hi
SeqsOf(S, lo, hi) == UNION {[1..n -> S] : n \in lo..hi}

\* results of _calculate_area_score: an area of total questions all answered
\* with level k, and an area of one question without an answer
AreaResults ==
    {[raised |-> FALSE, score |-> RatInt(k), weight |-> RatInt(1),
      responses_count |-> total, total_questions |-> total,
      coverage |-> RatInt(1)] : k \in 1..4, total \in {1, 3}}
    \cup {[raised |-> FALSE, score |-> MIN_SCORE, weight |-> RatInt(1),
           responses_count |-> 0, total_questions |-> 1, coverage |-> RatInt(0)]}

SectionScoreCalls ==
    {[fn |-> "section_score", area_data |-> ad] : ad \in SeqsOf(AreaResults, 1, MaxAreas)}

\* number of entries of a section_scores dict handed to _calculate_deviq_score
MaxSections == 4

\* the keys of the dict in insertion order: names of SECTION_WEIGHTS and
\* names it does not hold
SectionKeys == <<"foundational_capabilities", "research_and_innovation",
                 "transformation_capabilities", "FC", "enterprise_integration">>

\* scores of the entries (Null: an entry without a score)
SectionScoreChoices == {Null, Some(RatInt(1)), Some(RatInt(2)), Some(Rat(7, 3)), Some(RatInt(4))}

DeviqScoreCalls ==
    {[fn |-> "deviq_score",
      items |-> [i \in 1..Len(sc) |-> [key |-> SectionKeys[i], score |-> sc[i]]]] :
        sc \in SeqsOf(SectionScoreChoices, 0, MaxSections)}

\* length of the lists handed to calculate_weighted_average
MaxScores == 3

\* scores within [1.0, 4.0] and weights of either sign
ScoreValues == {RatInt(1), Rat(5, 2), RatInt(4)}
WeightValues == {RatInt(0 - 1), RatInt(0), RatInt(1), RatInt(2)}

WeightedAverageCalls ==
    {[fn |-> "calculate_weighted_average", scores |-> sc, weights |-> w] :
        sc \in SeqsOf(ScoreValues, 0, MaxScores),
        w \in {Null} \cup {Some(ws) : ws \in SeqsOf(WeightValues, 0, MaxScores)}}

\* the scores classified: the twentieths from -MaxTwentieths/20 to MaxTwentieths/20
MaxTwentieths == 100

ClassifyCalls ==
    {[fn |-> "classify_maturity_level", score |-> Rat(k, 20)] :
        k \in (0 - MaxTwentieths)..MaxTwentieths}

\* the scores whose maturity level is derived in every place that derives one
MaturityLevelCalls ==
    {[fn |-> "maturity_level", score |-> Rat(k, 20)] : k \in 0..MaxTwentieths}

\* the counts handed to calculate_section_coverage: -MaxCount..MaxCount
MaxCount == 10

CoverageCalls ==
    {[fn |-> "calculate_section_coverage", responses_count |-> a, total_questions |-> t] :
        a \in (0 - MaxCount)..MaxCount, t \in (0 - MaxCount)..MaxCount}

\* the tables scored while the scoring of one section fails: the two
\* questions of area FC1 carry the same answer or none
FailureTables == {t \in ScoredTables : t["q1"] = t["q2"]}

\* calculate_assessment_score with one section whose scoring raises
FailingScoreCalls ==
    {[fn |-> "calculate_assessment_score_with_failure", failing |-> sid] : sid \in Sections}

ScoringCalls ==
    {[fn |-> "calculate_assessment_score"]} \cup SectionScoreCalls \cup DeviqScoreCalls
    \cup WeightedAverageCalls \cup ClassifyCalls \cup CoverageCalls
    \cup FailingScoreCalls \cup MaturityLevelCalls

InitScoring ==
    /\ status = "IN_PROGRESS"
    /\ overall_score = Null
    /\ section_score_cols = [sid \in Sections |-> Null]
    /\ deviq_classification = "NULL"
    /\ completion_date = 0
    /\ finalize_commits = 0
    /\ late_submits = 0
    /\ last = NoCall
    /\ req \in ScoringCalls
    /\ IF req.fn = "calculate_assessment_score"
       THEN responses \in ScoredTables
       ELSE IF req.fn = "calculate_assessment_score_with_failure"
       THEN responses \in FailureTables
       ELSE responses = [q \in Questions |-> <<>>]

\* ScoringService.calculate_assessment_score: queries only, no session.add,
\* no commit; area_scores are the area_details of lines 190-204
CalculateAssessmentScore ==
    /\ req.fn = "calculate_assessment_score"
    /\ last.call < MaxCalls
    /\ last' = [op |-> "calculate_assessment_score", call |-> last.call + 1,
                result |-> calculate_assessment_score(responses),
                area_scores |-> [a \in Areas |-> calculate_area_score(responses, a)]]
    /\ UNCHANGED <<assessment_cols, responses, finalize_commits, late_submits, req>>

\* ScoringService._calculate_single_section_score on the results of its areas
SectionScoreCall ==
    /\ req.fn = "section_score"
    /\ last.op = "none"
    /\ last' = [op |-> "section_score", call |-> 1,
                result |-> SectionScoreOfAreas(req.area_data)]
    /\ UNCHANGED <<assessment_cols, responses, finalize_commits, late_submits, req>>

\* ScoringService._calculate_deviq_score on a section_scores dict
DeviqScoreCall ==
    /\ req.fn = "deviq_score"
    /\ last.op = "none"
    /\ last' = [op |-> "deviq_score", call |-> 1, result |-> DeviqScoreOfItems(req.items)]
    /\ UNCHANGED <<assessment_cols, responses, finalize_commits, late_submits, req>>

\* scoring_utils.calculate_weighted_average
WeightedAverageCall ==
    /\ req.fn = "calculate_weighted_average"
    /\ last.op = "none"
    /\ last' = [op |-> "calculate_weighted_average", call |-> 1,
                result |-> WeightedAverageCalled(req.scores, req.weights)]
    /\ UNCHANGED <<assessment_cols, responses, finalize_commits, late_submits, req>>

\* scoring_utils.classify_maturity_level on a numeric score
ClassifyCall ==
    /\ req.fn = "classify_maturity_level"
    /\ last.op = "none"
    /\ last' = [op |-> "classify_maturity_level", call |-> 1,
                result |-> classify_maturity_level(req.score)]
    /\ UNCHANGED <<assessment_cols, responses, finalize_commits, late_submits, req>>

\* the maturity level of one score as each place of the program derives it:
\* classify_maturity_level, the report (_get_maturity_level_from_score), the
\* classification generate_report stores, the index page (get_maturity_level)
MaturityLevelCall ==
    /\ req.fn = "maturity_level"
    /\ last.op = "none"
    /\ last' = [op |-> "maturity_level", call |-> 1,
                result |-> [classified |-> classify_maturity_level(req.score),
                            report     |-> get_maturity_level_from_score(req.score),
                            stored     |-> GenerateReportClassification(req.score),
                            index      |-> get_maturity_level(Some(req.score))]]
    /\ UNCHANGED <<assessment_cols, responses, finalize_commits, late_submits, req>>

\* scoring_utils.calculate_section_coverage
CoverageCall ==
    /\ req.fn = "calculate_section_coverage"
    /\ last.op = "none"
    /\ last' = [op |-> "calculate_section_coverage", call |-> 1,
                result |-> calculate_section_coverage(req.responses_count,
                                                      req.total_questions)]
    /\ UNCHANGED <<assessment_cols, responses, finalize_commits, late_submits, req>>

\* calculate_assessment_score while the scoring of the section req.failing
\* raises
CalculateAssessmentScoreWithFailure ==
    /\ req.fn = "calculate_assessment_score_with_failure"
    /\ last.op = "none"
    /\ last' = [op |-> "calculate_assessment_score_with_failure", call |-> 1,
                raised |-> FALSE,
                result |-> AssessmentScoreWhenFailing(responses, {req.failing})]
    /\ UNCHANGED <<assessment_cols, responses, finalize_commits, late_submits, req>>

NextScoring ==
    \/ CalculateAssessmentScore
    \/ SectionScoreCall
    \/ DeviqScoreCall
    \/ WeightedAverageCall
    \/ ClassifyCall
    \/ CoverageCall
    \/ CalculateAssessmentScoreWithFailure
    \/ MaturityLevelCall

SpecScoring == InitScoring /\ [][NextScoring]_vars

-----------------------------------------------------------------------------
(* Question by question: the question page shows the question that          *)
(* get_next_question returns, the user answers it through the route         *)
(* submit_response, which hands on to handle_navigation. req counts the     *)
(* user's submissions, last holds what the last request returned.           *)

RECURSIVE QuestionsOfAreas(_)
QuestionsOfAreas(area_ids) ==
    IF area_ids = <<>> THEN <<>>
    ELSE QuestionsOfArea(Head(area_ids)) \o QuestionsOfAreas(Tail(area_ids))

RECURSIVE QuestionsOfSections(_)
QuestionsOfSections(section_ids) ==
    IF section_ids = <<>> THEN <<>>
    ELSE QuestionsOfAreas(AreasOf(Head(section_ids))) \o QuestionsOfSections(Tail(section_ids))

\* query(Question).join(Area).join(Section).order_by(Section.display_order,
\* Area.display_order, Question.display_order)
JoinedQuestions == QuestionsOfSections(SectionIds)

\* AssessmentService.get_next_question: None or the first row of the query
get_next_question(table) ==
    LET answered_question_ids == {q \in Questions : HasRow(table, q)}
        rows == SelectIn(JoinedQuestions, Questions \ answered_question_ids)
    IN  IF rows = <<>> THEN Null ELSE Some(Head(rows))

\* handle_navigation: the page the user is sent to
handle_navigation(table, next_action) ==
    IF next_action = "prev" THEN "question"
    ELSE IF next_action = "complete" THEN "complete"
    ELSE IF get_next_question(table) # Null THEN "question"
    ELSE "complete"

\* the parameters of AssessmentService.submit_response
ServiceSubmitParameters ==
    {"assessment_id", "question_id", "answer_value", "validate_answer"}

\* the keywords of response_data in the route submit_response
ResponseDataKeys == {"assessment_id", "question_id", "answer_value", "notes"}

\* the route submit_response with its navigation: the form checks, the call
\* assessment_service.submit_response(**response_data), a TypeError when a
\* keyword is no parameter of the method, and handle_navigation after a call
\* that returned
SubmitResponseNavigation(st, table, question_id, answer_value, next_action) ==
    LET turned_down == [outcome |-> "rejected", table |-> table, status |-> st,
                        redirect |-> "question"]
        failed      == [outcome |-> "error", table |-> table, status |-> st,
                        redirect |-> "question"]
    IN  IF answer_value = "" THEN turned_down
        ELSE IF ~IsIntString(answer_value) THEN turned_down
        ELSE IF IntOf(answer_value) < 1 \/ IntOf(answer_value) > 5 THEN turned_down
        ELSE IF ~(ResponseDataKeys \subseteq ServiceSubmitParameters) THEN failed
        ELSE LET r == ServiceSubmitResponseResult(
                          st, table, question_id,
                          [is_str |-> TRUE, s |-> answer_value, i |-> 0], TRUE)
             IN  IF r.outcome = "saved"
                 THEN [outcome |-> "saved", table |-> r.table, status |-> r.status,
                       redirect |-> handle_navigation(r.table, next_action)]
                 ELSE [outcome |-> r.outcome, table |-> table, status |-> st,
                       redirect |-> "question"]

\* the response tables a session starts from: any of the questions answered
\* (through the section forms) at level 3
NavigationTables == [Questions -> {<<>>, <<3>>}]

\* submissions of one user that are counted: the count stays at
\* MaxSubmissions, which then reads "MaxSubmissions or more"
MaxSubmissions == 7

CountSubmission(n) == IF n < MaxSubmissions THEN n + 1 ELSE n

\* the answers the user picks on the question page
NavigationAnswers == {"3", "4"}

InitNavigation ==
    /\ status = "IN_PROGRESS"
    /\ overall_score = Null
    /\ section_score_cols = [sid \in Sections |-> Null]
    /\ deviq_classification = "NULL"
    /\ completion_date = 0
    /\ responses \in NavigationTables
    /\ finalize_commits = 0
    /\ late_submits = 0
    /\ last = [op |-> "none", call |-> 0]
    /\ req = [fn |-> "navigate", submissions |-> 0,
              unanswered |-> TotalQuestions - RowCount(responses)]

\* the route question without a question id: the report of a COMPLETED
\* assessment, the completion page when get_next_question returns None, else
\* the page of the returned question with the progress
QuestionPage ==
    /\ req.fn = "navigate"
    /\ last.op \in {"none", "submit_response"}
    /\ last' = [op |-> "question", call |-> req.submissions,
                result |-> [question |-> get_next_question(responses),
                            page |-> IF status = "COMPLETED" THEN "report"
                                     ELSE IF get_next_question(responses) = Null
                                          THEN "complete" ELSE "question",
                            progress |-> get_assessment_progress(responses)]]
    /\ UNCHANGED <<assessment_cols, responses, finalize_commits, late_submits, req>>

\* the user answers the question the page shows: the route submit_response
\* with next_action 'next'
AnswerReturnedQuestion(answer_value) ==
    /\ req.fn = "navigate"
    /\ last.op = "question"
    /\ last.result.page = "question"
    /\ LET r == SubmitResponseNavigation(status, responses, last.result.question[1],
                                         answer_value, "next")
       IN  /\ responses' = r.table
           /\ status' = r.status
           /\ last' = [op |-> "submit_response", call |-> CountSubmission(req.submissions),
                       result |-> [outcome |-> r.outcome, redirect |-> r.redirect]]
    /\ req' = [req EXCEPT !.submissions = CountSubmission(@)]
    /\ UNCHANGED <<overall_score, section_score_cols, deviq_classification,
                   completion_date, finalize_commits, late_submits>>

NextNavigation ==
    \/ QuestionPage
    \/ \E a \in NavigationAnswers : AnswerReturnedQuestion(a)

\* the user goes on as long as a page offers a next step
SpecNavigation == InitNavigation /\ [][NextNavigation]_vars /\ WF_vars(NextNavigation)

-----------------------------------------------------------------------------
(* Properties.                                                             *)

\* answered questions / total questions * 100 of the assessment as stored
CompletionPercentage == Percentage(RowCount(responses), TotalQuestions)

FinalizationOps == {"generate_report", "finalize", "complete_assessment"}
SubmissionOps == {"submit_section_responses", "submit_response",
                  "service_submit_response", "api_submit_response"}

InScoreRange(col) == col # Null /\ RatLE(MIN_SCORE, col[1]) /\ RatLE(col[1], MAX_SCORE)

AllAnswered(k) == \A q \in Questions : responses[q] = <<k>>

\* the mean over the areas of the section that have an answer of the mean of
\* each area's answers (Null: the section has no answer)
AnsweredOnlySection(table, sid) ==
    LET has(a) == RowsOf(table, QuestionsOfArea(a)) # <<>>
        as     == SelectSeq(AreasOf(sid), has)
        means  == [i \in 1..Len(as) |-> Mean(RowsOf(table, QuestionsOfArea(as[i])))]
    IN  IF as = <<>> THEN Null ELSE Some(RatDivInt(RatSum(means), Len(means)))

\* the mean of the sections that have an answer
AnsweredOnlyOverall(table) ==
    LET has(sid) == AnsweredOnlySection(table, sid) # Null
        ss       == SelectSeq(SectionIds, has)
        vals     == [i \in 1..Len(ss) |-> AnsweredOnlySection(table, ss[i])[1]]
    IN  IF ss = <<>> THEN Null ELSE Some(RatDivInt(RatSum(vals), Len(vals)))

\* C1: once the status is COMPLETED no request changes the responses table
\* (no row inserted, no score changed).
C1_NoResponseChangeOnceCompleted ==
    [][status = "COMPLETED" => responses' = responses]_vars

\* C2: a finalization request without force at a completion percentage below
\* 80 is rejected (answered "already completed" when the assessment is
\* COMPLETED) and leaves status, stored scores and responses as they were;
\* the progress validator rejects the same counts.
C2_UnforcedBelowThresholdRejected ==
    [][(/\ last'.op \in FinalizationOps \cup {"validate_completion_eligibility"}
        /\ ~last'.force
        /\ RatLT(CompletionPercentage, RatInt(80)))
       => (/\ UNCHANGED <<assessment_cols, responses>>
           /\ last'.outcome \in {"rejected", "already_completed"}
           /\ (status # "COMPLETED" => last'.outcome = "rejected"))]_vars

\* C2 witness: generate_report without force was rejected at 4 of 6 answers
C2_Witness ==
    /\ last.op = "generate_report" /\ ~last.force /\ last.outcome = "rejected"
    /\ RowCount(responses) = 4
    /\ status = "IN_PROGRESS" /\ overall_score = Null

\* C3: a request without force for an in-progress assessment with
\* 80 <= completion percentage < 100 is accepted on each of the three
\* finalization paths and leaves the assessment COMPLETED.
C3_UnforcedAtThresholdAccepted ==
    [][(/\ last'.op \in FinalizationOps
        /\ ~last'.force
        /\ status = "IN_PROGRESS"
        /\ RatLE(RatInt(80), CompletionPercentage)
        /\ RatLT(CompletionPercentage, RatInt(100)))
       => (last'.outcome = "completed" /\ status' = "COMPLETED")]_vars

\* C4: of two interleaved finalization requests at most one writes the
\* assessment row; once the status is COMPLETED nothing writes it again.
C4_AtMostOnceFinalize ==
    [][/\ finalize_commits' <= 1
       /\ (status = "COMPLETED" => UNCHANGED assessment_cols)]_vars

\* C5: with every question answered 3 the aggregator gives overall 3.0, level
\* AUGMENTED and completion_percentage 100.0, and a finalization request
\* without force succeeds on every path and leaves the assessment COMPLETED.
C5_AllThreesFinalize ==
    [][(/\ AllAnswered(3)
        /\ status = "IN_PROGRESS"
        /\ last'.op \in FinalizationOps
        /\ ~last'.force)
       => LET r == calculate_assessment_score(responses)
          IN  /\ r.deviq_score = RatInt(3)
              /\ r.maturity_level = "AUGMENTED"
              /\ r.completion_status.completion_percentage = RatInt(100)
              /\ last'.outcome = "completed"
              /\ status' = "COMPLETED"]_vars

\* C6: with half of the questions answered, finalization without force is
\* rejected; with force it succeeds, and the aggregator's section and overall
\* scores are the averages over what was answered: an area or a section
\* without an answer contributes nothing.
C6_HalfAnswered ==
    [][(/\ RowCount(responses) * 2 = TotalQuestions
        /\ status = "IN_PROGRESS"
        /\ last'.op \in FinalizationOps)
       => IF ~last'.force
          THEN last'.outcome = "rejected" /\ UNCHANGED <<assessment_cols, responses>>
          ELSE LET r == calculate_assessment_score(responses)
               IN  /\ last'.outcome = "completed"
                   /\ status' = "COMPLETED"
                   /\ \A sid \in Sections :
                         AnsweredOnlySection(responses, sid) # Null
                         => r.section_scores[sid].score = AnsweredOnlySection(responses, sid)[1]
                   /\ r.deviq_score = RoundTo(AnsweredOnlyOverall(responses)[1], 2)]_vars

\* C7: for the responses of a finalized assessment, the overall and section
\* scores generate_report stored and the ones the report route shows equal
\* the ones ScoringService computes (to the 2 decimals the service rounds to).
C7_PathsAgree ==
    (status = "COMPLETED" /\ late_submits = 0)
    => LET r == calculate_assessment_score(responses)
       IN  /\ RoundTo(overall_score[1], 2) = r.deviq_score
           /\ RoundTo(ReportOverall(responses), 2) = r.deviq_score
           /\ \A sid \in Sections :
                 /\ section_score_cols[sid] = Some(r.section_scores[sid].score)
                 /\ ReportSectionScores(responses)[sid] = Some(r.section_scores[sid].score)

C9_OneRowPerQuestion ==
    [][/\ \A q \in Questions : Len(responses'[q]) <= 1
       /\ \A i \in Slots :
             (req[i].pc = "submit_read" /\ req'[i].pc = "idle" /\ last'.outcome = "saved")
             => \A q \in Questions :
                   req[i].form[q] # "" => responses'[q] = <<IntOf(req[i].form[q])>>]_vars

\* C9 witness: two requests both found no row for q6; the first stored its
\* row, the second one's commit was refused
C9_Witness ==
    /\ last.op = "submit_section_responses" /\ last.outcome = "error" /\ ~last.out_of_range
    /\ Len(responses["q6"]) = 1

\* C10: after a finalization the stored overall score and the four stored
\* section scores lie within [1.0, 4.0].
C10_StoredScoresWithinScale ==
    status = "COMPLETED"
    => /\ InScoreRange(overall_score)
       /\ \A sid \in Sections : InScoreRange(section_score_cols[sid])

\* C11: the score of an area is the arithmetic mean of the scores of its
\* answered questions only: an unanswered question enters neither the sum nor
\* the denominator, and is never counted as zero.
C11_AreaScoreIsMeanOfAnswered ==
    last.op = "calculate_assessment_score" =>
        \A a \in Areas :
            LET answered == RowsOf(responses, QuestionsOfArea(a))
            IN  answered # <<>> =>
                    /\ ~last.area_scores[a].raised
                    /\ last.area_scores[a].score = Mean(answered)
                    /\ last.area_scores[a].responses_count = Len(answered)

\* C11 witness: area FC1 scored with q1 answered 4 and q2 unanswered
C11_Witness ==
    /\ last.op = "calculate_assessment_score"
    /\ responses["q1"] = <<4>> /\ responses["q2"] = <<>>
    /\ last.area_scores["FC1"].score = RatInt(4)

\* the scores of the areas of section sid, in display order
AreaScoresOf(area_scores, sid) ==
    [i \in 1..Len(AreasOf(sid)) |-> area_scores[AreasOf(sid)[i]].score]

\* C12: the score of a section is the mean of the scores of its areas, every
\* area counting once (weight 1.0) whatever the number of its questions;
\* areas scoring 2.0, 3.0 and 4.0 give the section 3.0.
C12_SectionScoreIsMeanOfAreas ==
    /\ last.op = "section_score" =>
          LET scores == [i \in 1..Len(req.area_data) |-> req.area_data[i].score]
          IN  /\ ~last.result.raised
              /\ last.result.score = RatDivInt(RatSum(scores), Len(scores))
    /\ last.op = "calculate_assessment_score" =>
          \A sid \in Sections :
              LET scores == AreaScoresOf(last.area_scores, sid)
              IN  /\ ~last.result.section_scores[sid].error
                  /\ last.result.section_scores[sid].score
                        = RatDivInt(RatSum(scores), Len(scores))

\* C12 witness: areas of one, three and one questions scoring 2.0, 3.0 and
\* 4.0 give the section 3.0
C12_Witness ==
    /\ last.op = "section_score"
    /\ Len(req.area_data) = 3
    /\ [i \in 1..3 |-> req.area_data[i].score] = <<RatInt(2), RatInt(3), RatInt(4)>>
    /\ [i \in 1..3 |-> req.area_data[i].total_questions] = <<1, 3, 1>>
    /\ last.result.score = RatInt(3)

\* the scores of the entries that carry one
ScoresOfItems(items) ==
    LET scored(it) == it.score # Null
        kept == SelectSeq(items, scored)
    IN  [i \in 1..Len(kept) |-> kept[i].score[1]]

\* the mean of a non-empty list of scores, brought into [1.0, 4.0] and
\* rounded to two decimals
ClampedRoundedMean(scores) ==
    RoundTo(RatMax(RatInt(1), RatMin(RatInt(4), RatDivInt(RatSum(scores), Len(scores)))), 2)

\* C13: the overall score is the mean of the section scores with the weight
\* 0.25 for every section (also for a key outside the weight map), clamped
\* to [1.0, 4.0] and rounded to two decimals; it lies in [1.0, 4.0] and is
\* 1.0 when there is no section score to average.
C13_OverallScore ==
    /\ last.op = "deviq_score" =>
          LET scores == ScoresOfItems(req.items)
          IN  /\ ~last.result.raised
              /\ RatLE(RatInt(1), last.result.value) /\ RatLE(last.result.value, RatInt(4))
              /\ scores = <<>> => last.result.value = RatInt(1)
              /\ scores # <<>> => last.result.value = ClampedRoundedMean(scores)
    /\ last.op = "calculate_assessment_score" =>
          LET scores == [i \in 1..Len(SectionIds) |->
                            last.result.section_scores[SectionIds[i]].score]
          IN  /\ RatLE(RatInt(1), last.result.deviq_score)
              /\ RatLE(last.result.deviq_score, RatInt(4))
              /\ last.result.deviq_score = ClampedRoundedMean(scores)

\* C13 witness: a dict of three scored entries, the second under a key
\* outside the weight map, scoring 1.0, 4.0 and 2.0 gives 2.33
C13_Witness ==
    /\ last.op = "deviq_score"
    /\ Len(req.items) = 3
    /\ req.items[2].key \notin DOMAIN SECTION_WEIGHTS
    /\ [i \in 1..3 |-> req.items[i].score] = <<Some(RatInt(1)), Some(RatInt(4)), Some(RatInt(2))>>
    /\ last.result.value = Rat(233, 100)

\* C14: an area or a section without an answered question gets MIN_SCORE
\* 1.0 and the coverage 0.0, and scoring raises no error because of it.
C14_UnansweredGetsMinScore ==
    last.op = "calculate_assessment_score" =>
        /\ \A a \in Areas :
              RowsOf(responses, QuestionsOfArea(a)) = <<>> =>
                  /\ ~last.area_scores[a].raised
                  /\ last.area_scores[a].score = RatInt(1)
                  /\ last.area_scores[a].coverage = RatInt(0)
        /\ \A sid \in Sections :
              (\A q \in QuestionsOfSection(sid) : responses[q] = <<>>) =>
                  /\ ~last.result.section_scores[sid].error
                  /\ last.result.section_scores[sid].score = RatInt(1)
                  /\ last.result.section_scores[sid].coverage = RatInt(0)

\* C14 witness: a table with answers in section FC only was scored; section
\* SG has the score 1.0
C14_Witness ==
    /\ last.op = "calculate_assessment_score"
    /\ responses["q1"] = <<3>> /\ responses["q3"] = <<4>>
    /\ \A q \in Questions : QuestionSection[q] # "FC" => responses[q] = <<>>
    /\ last.result.section_scores["SG"].score = RatInt(1)
    /\ last.result.section_scores["SG"].coverage = RatInt(0)
    /\ ~last.result.section_scores["SG"].error

\* the least and the greatest element of a non-empty list of rationals
RECURSIVE MinOf(_)
MinOf(s) == IF Len(s) = 1 THEN s[1] ELSE RatMin(Head(s), MinOf(Tail(s)))
RECURSIVE MaxOf(_)
MaxOf(s) == IF Len(s) = 1 THEN s[1] ELSE RatMax(Head(s), MaxOf(Tail(s)))

\* C15: for a non-empty list of scores in [1.0, 4.0] and any weights that
\* calculate_weighted_average accepts (same length, total weight not zero;
\* equal weights when omitted) the value returned lies between the least and
\* the greatest of the scores.
C15_AverageBetweenMinAndMax ==
    (last.op = "calculate_weighted_average" /\ last.result.ok) =>
        /\ RatLE(MinOf(req.scores), last.result.value)
        /\ RatLE(last.result.value, MaxOf(req.scores))

\* C16: calculate_weighted_average raises an error, and returns no value,
\* when the list of scores is empty, when scores and weights differ in
\* length, or when the weights sum to zero; the scoring service never runs
\* into the error of the empty list, as it puts MIN_SCORE where there is
\* nothing to average.
C16_AverageRaises ==
    /\ (/\ last.op = "calculate_weighted_average"
        /\ \/ req.scores = <<>>
           \/ (req.weights # Null /\ Len(req.weights[1]) # Len(req.scores))
           \/ (req.weights # Null /\ RatSum(req.weights[1]).n = 0))
       => ~last.result.ok
    /\ last.op = "calculate_assessment_score" =>
          /\ \A a \in Areas : ~last.area_scores[a].raised
          /\ \A sid \in Sections : ~last.result.section_scores[sid].error
    /\ last.op \in {"section_score", "deviq_score"} => ~last.result.raised

\* C16 witness: the call with an empty list of scores and no weights raised
C16_Witness ==
    /\ last.op = "calculate_weighted_average"
    /\ req.scores = <<>> /\ req.weights = Null
    /\ ~last.result.ok

\* C17: classify_maturity_level gives every numeric score s, without an
\* error, TRADITIONAL if s < 1.8, ASSISTED if 1.8 <= s < 2.5, AUGMENTED if
\* 2.5 <= s < 3.3 and FIRST if s >= 3.3; 1.8, 2.5 and 3.3 fall to the higher
\* band, a score below 1.0 is TRADITIONAL and one above 4.0 is FIRST.
C17_MaturityBands ==
    last.op = "classify_maturity_level" =>
        LET s == req.score
        IN  /\ RatLT(s, Rat(18, 10)) => last.result = "TRADITIONAL"
            /\ (RatLE(Rat(18, 10), s) /\ RatLT(s, Rat(25, 10))) => last.result = "ASSISTED"
            /\ (RatLE(Rat(25, 10), s) /\ RatLT(s, Rat(33, 10))) => last.result = "AUGMENTED"
            /\ RatLE(Rat(33, 10), s) => last.result = "FIRST"

\* C17 witness: the score 1.8 was classified as ASSISTED
C17_Witness ==
    /\ last.op = "classify_maturity_level"
    /\ req.score = Rat(18, 10)
    /\ last.result = "ASSISTED"

\* C18: calculate_section_coverage(answered, total) returns 0.0 whenever
\* total <= 0 and otherwise answered / total brought into [0.0, 1.0]; it
\* returns 0.0 for (0, 10) and 1.0 for (10, 10).
C18_SectionCoverage ==
    last.op = "calculate_section_coverage" =>
        LET answered == req.responses_count
            total    == req.total_questions
        IN  /\ total <= 0 => last.result = RatInt(0)
            /\ (total > 0 /\ answered <= 0) => last.result = RatInt(0)
            /\ (total > 0 /\ answered >= total) => last.result = RatInt(1)
            /\ (total > 0 /\ answered > 0 /\ answered < total) =>
                   /\ last.result.n * total = answered * last.result.d
                   /\ RatLT(RatInt(0), last.result) /\ RatLT(last.result, RatInt(1))

\* C18 witness: the call (10, 10) returned 1.0
C18_Witness ==
    /\ last.op = "calculate_section_coverage"
    /\ req.responses_count = 10 /\ req.total_questions = 10
    /\ last.result = RatInt(1)

CompositeTenths(rec) ==
    4 * LevelScore(rec.priority) + 3 * LevelScore(rec.impact)
    + 2 * LevelScore(rec.feasibility) + (ScoreImprovement(rec).t \div FloatBase)

\* C20: rank_recommendations returns a permutation of its input in the order
\* of non-increasing composite score (high = 3, medium = 2, low = 1, a missing
\* value = medium); recommendations of equal composite score keep the order
\* they have in the input.
C20_RankingOrder ==
    last.op = "rank_recommendations" =>
        LET in  == req.recommendations
            out == last.result
        IN  /\ Len(out) = Len(in)
            /\ \A k \in 1..Len(in) : \E m \in 1..Len(out) : out[m] = in[k]
            /\ \A i, j \in 1..Len(out) :
                  i < j => /\ CompositeTenths(out[i]) >= CompositeTenths(out[j])
                           /\ CompositeTenths(out[i]) = CompositeTenths(out[j])
                                 => out[i].id < out[j].id

\* 600 times the value 0.4*impact + 0.4*feasibility + 0.2*(4.0 - score)/3.0
\* for a score of k twentieths
PriorityValue600(impact, feasibility, current_score) ==
    LET k == (current_score.n * 20) \div current_score.d
    IN  240 * (EnumScore(impact) + EnumScore(feasibility)) + 160 - 2 * k

HoldsTemplates(table, transition_key, section_key) ==
    /\ table.type = "dict" /\ HasKey(table, "recommendations")
    /\ LET recs == DictGet(table, "recommendations", JsonNull)
       IN  /\ recs.type = "dict" /\ HasKey(recs, "level_transitions")
           /\ LET transitions == DictGet(recs, "level_transitions", JsonNull)
              IN  /\ transitions.type = "dict" /\ HasKey(transitions, transition_key)
                  /\ LET transition == DictGet(transitions, transition_key, JsonNull)
                     IN  transition.type = "dict" /\ HasKey(transition, section_key)

\* the number of the maturity band of a section score
BandNumber(score) ==
    IF RatLT(score, Rat(18, 10)) THEN 1 ELSE IF RatLT(score, Rat(25, 10)) THEN 2
    ELSE IF RatLT(score, Rat(33, 10)) THEN 3 ELSE 4

\* C22: when the template table holds no entry for a section's transition
\* key "{current}_to_{target}", target = min(4, current + 1), or for its
\* normalized section key, the section gets an empty recommendation list and
\* no error is raised; this is so for every section whose level is FIRST, for
\* which the key is "4_to_4", under the default table.
C22_NoTemplatesNoRecommendations ==
    last.op = "generate_section_recommendations" =>
        LET current == BandNumber(req.section_data.score)
            target  == IF current + 1 > 4 THEN 4 ELSE current + 1
            key     == ToString(current) \o "_to_" \o ToString(target)
            section_key == ReplaceSpaces(Lower(req.section_data.section_name))
        IN  /\ ~HoldsTemplates(req.recommendation_templates, key, section_key)
                  => last.result = <<>> /\ ~last.raised
            /\ (current = 4 /\ req.recommendation_templates = get_default_recommendations)
                  => key = "4_to_4" /\ last.result = <<>> /\ ~last.raised

\* C22 witness: a section at the level FIRST was given no recommendation from
\* the default table
C22_Witness ==
    /\ last.op = "generate_section_recommendations"
    /\ req.recommendation_templates = get_default_recommendations
    /\ req.section_data = [section_name |-> "Strategic Governance", score |-> RatInt(4)]
    /\ last.result = <<>>

\* the number of places of a list at which rec stands
Occurrences(list, rec) == Cardinality({i \in 1..Len(list) : list[i] = rec})

\* C23: the ranked list, of at most max_recommendations recommendations, is
\* partitioned by type: every recommendation of it is in exactly one of the
\* lists quick_wins, foundational, strategic and transformational, so the
\* four sizes add up to total_recommendations.
C23_PartitionByType ==
    last.op = "generate_assessment_recommendations" =>
        LET top     == last.result.all
            by_type == last.result.by_type
            buckets == by_type.quick_wins \o by_type.foundational
                       \o by_type.strategic \o by_type.transformational
        IN  /\ Len(top) <= req.max_recommendations
            /\ last.result.total_recommendations = Len(top)
            /\ \A i \in 1..Len(top) : Occurrences(buckets, top[i]) = 1
            /\ \A i \in 1..Len(buckets) : Occurrences(top, buckets[i]) = 1
            /\ Len(by_type.quick_wins) + Len(by_type.foundational)
               + Len(by_type.strategic) + Len(by_type.transformational)
               = last.result.total_recommendations

\* C23 witness: a list cut at max_recommendations with at least two of the
\* four lists not empty
C23_Witness ==
    /\ last.op = "generate_assessment_recommendations"
    /\ last.result.total_recommendations = req.max_recommendations
    /\ last.result.by_type.quick_wins # <<>>
    /\ last.result.by_type.transformational # <<>>

\* C24: COMPLETED is terminal and its scores are frozen: once the status is
\* COMPLETED, no step of any operation changes the status, the completion
\* date or the stored overall and section scores.
C24_CompletedIsFrozen ==
    [][status = "COMPLETED" =>
          UNCHANGED <<status, completion_date, overall_score, section_score_cols>>]_vars

C27_StatusVocabularyShared ==
    /\ check_assessment_status(status)
    /\ (last.op = "complete_assessment" /\ status = "COMPLETED")
          => last.outcome = "already_completed"
    /\ (last.op = "service_submit_response" /\ status = "COMPLETED")
          => last.outcome = "rejected"
    /\ (last.op = "api_submit_response" /\ status = "IN_PROGRESS" /\ ~last.out_of_range)
          => last.outcome # "rejected"

\* the place of a level name among the four ordered bands (0: not a band)
MaturityBand(name) ==
    IF name \in {"TRADITIONAL", "Traditional", "Basic", "Traditional Development"} THEN 1
    ELSE IF name \in {"ASSISTED", "AI-Assisted", "Evolving", "AI-Assisted Development"} THEN 2
    ELSE IF name \in {"AUGMENTED", "AI-Augmented", "Advanced", "AI-Augmented Development"} THEN 3
    ELSE IF name \in {"FIRST", "AI-First", "Optimized", "AI-First Development"} THEN 4
    ELSE 0

\* C28: for every score in [1.0, 4.0] the band the report shows
\* (_get_maturity_level_from_score), the classification generate_report
\* stores and the band of the index page (get_maturity_level) are the band
\* classify_maturity_level assigns to that score.
C28_MaturityBandEverywhere ==
    (/\ last.op = "maturity_level"
     /\ RatLE(RatInt(1), req.score)
     /\ RatLE(req.score, RatInt(4))) =>
        LET band == MaturityBand(last.result.classified)
        IN  /\ MaturityBand(last.result.report) = band
            /\ MaturityBand(last.result.stored) = band
            /\ MaturityBand(last.result.index) = band

\* C29: AssessmentService.complete_assessment called on an already completed
\* assessment terminates and returns that assessment's results:
\* complete_assessment and _get_completion_results do not call each other
\* until the interpreter stops them, and the call ends in the results of the
\* completed assessment, not in an error.
C29_CompletedAssessmentReturnsResults ==
    (last.op = "complete_assessment" /\ status = "COMPLETED") =>
        /\ last.calls <= MaxCallDepth
        /\ last.outcome = "already_completed"

\* the first question of the display order that has no response
FirstUnanswered(table) ==
    LET RECURSIVE first(_)
        first(k) == IF k > Len(JoinedQuestions) THEN Null
                    ELSE IF ~HasRow(table, JoinedQuestions[k]) THEN Some(JoinedQuestions[k])
                    ELSE first(k + 1)
    IN  first(1)

\* C30 (the returned question): get_next_question returns the first question,
\* in display order of section, area and question, that has no response, and
\* None exactly when every question has a response.
C30_NextQuestionIsFirstUnanswered ==
    last.op = "question" =>
        /\ last.result.question = FirstUnanswered(responses)
        /\ last.result.question = Null <=> \A q \in Questions : HasRow(responses, q)

\* C30: get_next_question returns the first unanswered question and None
\* exactly when every question has a response, so a user who each time
\* answers the returned question reaches None after as many submissions as
\* there were unanswered questions, with progress at 100%.
C30_AnsweringReachesNone ==
    /\ []C30_NextQuestionIsFirstUnanswered
    /\ <>(/\ last.op = "question"
          /\ last.result.question = Null
          /\ last.result.progress.progress_percentage = RatInt(100)
          /\ req.submissions = req.unanswered)

====
